---- MODULE Spec2Model ----
(***************************************************************************)
(* A model of caddy-defender's blocking core: the IP matching engine       *)
(* (matchers/ip/ip.go), the dynamic blocklist with its file persistence    *)
(* (api.go), the file fetcher (ranges/fetchers/file.go), the admin API     *)
(* handlers (admin_app.go) and the middleware's ServeHTTP.                 *)
(*                                                                         *)
(* Addresses are scaled down: an IPv4 address has V4Bits bits instead of   *)
(* 32, an IPv6 address V4Bits + MappedPrefixLen bits instead of 128, and   *)
(* the IPv4-mapped block ::ffff:0:0/96 is the block whose top              *)
(* MappedPrefixLen bits hold MappedTop.                                    *)
(***************************************************************************)
EXTENDS Integers, Sequences, FiniteSets, TLC

\* ------------------------------------------------------------------ sizes

V4Bits == 2

MappedPrefixLen == 2

V6Bits == V4Bits + MappedPrefixLen

RECURSIVE Pow2(_)
Pow2(n) == IF n = 0 THEN 1 ELSE 2 * Pow2(n - 1)

Width(fam) == IF fam = 4 THEN V4Bits ELSE V6Bits

\* The bits of the IPv4-mapped block above the IPv4 address: zeros, then ones
\* in the low part (0, ..., 0, 0xff, 0xff).
MappedTop == Pow2(MappedPrefixLen \div 2) - 1

\* An IPv6 address outside the IPv4-mapped block.
PlainV6 == Pow2(V6Bits - 1) + 1

\* ---------------------------------------------------------------- strings
\* A string of the program (a range specifier, a line of the blocklist file,
\* an element of an admin request) is a record of its syntactic shape:
\*   kind "cidr"    "<addr>/<bits>", addr written in family fam
\*   kind "bare"    "<addr>", no slash
\*   kind "junk"    text with a slash that is no CIDR ("nonexistent/32")
\*   kind "bundle"  the name of a predefined range group ("openai")
\*   kind "comment" a line whose first character is '#'
\*   kind "blank"   the empty string, or a line of white space

Str(kind, fam, addr, bits) == [kind |-> kind, fam |-> fam, addr |-> addr, bits |-> bits]

Cidr(fam, addr, bits) == Str("cidr", fam, addr, bits)

Bare(fam, addr) == Str("bare", fam, addr, 0)

Junk(n) == Str("junk", 0, n, 0)

Bundle(n) == Str("bundle", 0, n, 0)

Comment(n) == Str("comment", 0, n, 0)

Blank == Str("blank", 0, 0, 0)

\* strings.Contains(s, "/")
HasSlash(s) == s.kind \in {"cidr", "junk"}

\* ------------------------------------------------------ addresses, prefixes

Addr(fam, addr) == [fam |-> fam, addr |-> addr]

Prefix(fam, addr, bits) == [fam |-> fam, addr |-> addr, bits |-> bits]

NoPrefix == [ok |-> FALSE, fam |-> 0, addr |-> 0, bits |-> 0]

\* netip.ParsePrefix: an address of either family, a slash, a length that
\* does not exceed the family's width. The address keeps its host bits.
ParsePrefix(s) ==
    IF /\ s.kind = "cidr"
       /\ s.fam \in {4, 6}
       /\ s.addr < Pow2(Width(s.fam))
       /\ s.bits <= Width(s.fam)
    THEN [ok |-> TRUE, fam |-> s.fam, addr |-> s.addr, bits |-> s.bits]
    ELSE NoPrefix

\* netip.Prefix.Masked: the host bits cleared.
Masked(p) ==
    LET size == Pow2(Width(p.fam) - p.bits)
    IN  Prefix(p.fam, p.addr - (p.addr % size), p.bits)

\* netip.AddrFrom16 of 0,...,0,0xff,0xff,a,b,c,d
MappedAddr(v4addr) == MappedTop * Pow2(V4Bits) + v4addr

\* data.IPRanges: the predefined groups, by name.
IPRanges ==
    (Bundle(1) :> <<Cidr(4, 2, 1), Cidr(6, PlainV6, 1)>>)

\* insertCIDR without the IPv4-mapped twin, for comparison.
insertCIDRNoMapped(table, cidr) ==
    LET prefix == ParsePrefix(cidr)
    IN  IF ~prefix.ok THEN table
        ELSE table \cup {Masked(Prefix(prefix.fam, prefix.addr, prefix.bits))}

\* insertCIDR: the masked prefix and, for an IPv4 prefix, its IPv4-mapped
\* IPv6 twin; a string that does not parse leaves the table as it was.
insertCIDR(table, cidr) ==
    LET prefix == ParsePrefix(cidr)
    IN  IF ~prefix.ok THEN table
        ELSE table
             \cup {Masked(Prefix(prefix.fam, prefix.addr, prefix.bits))}
             \cup (IF prefix.fam = 4
                   THEN {Masked(Prefix(6, MappedAddr(prefix.addr),
                                       MappedPrefixLen + prefix.bits))}
                   ELSE {})

RECURSIVE insertGroup(_, _, _)
insertGroup(table, ranges, j) ==
    IF j > Len(ranges) THEN table
    ELSE insertGroup(insertCIDR(table, ranges[j]), ranges, j + 1)

RECURSIVE buildFrom(_, _, _)
buildFrom(table, cidrRanges, i) ==
    IF i > Len(cidrRanges) THEN table
    ELSE LET cidr == cidrRanges[i]
         IN  IF cidr \in DOMAIN IPRanges
             THEN buildFrom(insertGroup(table, IPRanges[cidr], 1), cidrRanges, i + 1)
             ELSE buildFrom(insertCIDR(table, cidr), cidrRanges, i + 1)

\* buildTable: a fresh table holding every entry of the list that parses,
\* the members of a named group in place of its name.
buildTable(cidrRanges) == buildFrom({}, cidrRanges, 1)

\* bart.Table.Contains: some stored prefix of the address's own family
\* agrees with the address on its first bits.
Contains(table, a) ==
    \E p \in table :
        /\ p.fam = a.fam
        /\ Masked(Prefix(a.fam, a.addr, p.bits)).addr = p.addr

\* A net.IP is a byte slice: 4 bytes, 16 bytes, or nil.
NetIP(len, addr) == [len |-> len, addr |-> addr]

NilIP == NetIP(0, 0)

\* ipToAddr: netip.AddrFromSlice keeps the slice's form, so the 16-byte
\* form of an IPv4 address stays an IPv4-mapped IPv6 address.
ipToAddr(ip) ==
    IF ip.len = 4 THEN [ok |-> TRUE, fam |-> 4, addr |-> ip.addr]
    ELSE IF ip.len = 16 THEN [ok |-> TRUE, fam |-> 6, addr |-> ip.addr]
    ELSE [ok |-> FALSE, fam |-> 0, addr |-> 0]

\* The cache key, ipAddr.String(): the family's notation and the digits.
CacheKey(a) == <<a.fam, a.addr>>

\* ------------------------------------------------------------ coverage
\* What "CIDR c covers address a" means, stated on address ranges: a lies in
\* c's block of its own family, or c is an IPv4 block and a is the
\* IPv4-mapped form of an address in it.

InRange(p, a) ==
    LET size == Pow2(Width(p.fam) - p.bits)
        base == (p.addr \div size) * size
    IN  a.fam = p.fam /\ base <= a.addr /\ a.addr < base + size

Is4In6(a) == a.fam = 6 /\ a.addr \div Pow2(V4Bits) = MappedTop

Unmap(a) == IF Is4In6(a) THEN Addr(4, a.addr % Pow2(V4Bits)) ELSE a

CidrCovers(s, a) ==
    LET p == ParsePrefix(s)
    IN  /\ p.ok
        /\ \/ InRange(p, a)
           \/ p.fam = 4 /\ Is4In6(a) /\ InRange(p, Unmap(a))

ListCovers(list, a) ==
    \E i \in 1..Len(list) :
        IF list[i] \in DOMAIN IPRanges
        THEN \E j \in 1..Len(IPRanges[list[i]]) : CidrCovers(IPRanges[list[i]][j], a)
        ELSE CidrCovers(list[i], a)

\* Whitelist.Matches: the address is one of the whitelist's literal
\* addresses or lies in one of its CIDRs, IPv4-mapped forms normalised.
WhitelistMatches(wl, a) ==
    \E w \in wl :
        \/ w.kind = "bare" /\ Unmap(a) = Unmap(Addr(w.fam, w.addr))
        \/ w.kind = "cidr" /\ CidrCovers(w, a)

\* ------------------------------------------------------------------ bounds

\* UpdateRanges calls in one run.
MaxUpdates == 1

\* ------------------------------------------------------------------ inputs

\* Range lists handed to NewIPChecker and UpdateRanges.
RangeLists ==
    { <<Cidr(4, 3, 1)>>,
      <<Junk(1), Bundle(1)>>,
      <<Cidr(4, 2, V4Bits + 1), Cidr(6, 1, V6Bits)>> }

\* Client addresses: IPv4 in 4-byte form, the same in 16-byte form, a plain
\* IPv6 address, and a nil slice.
ClientIPs ==
    { NetIP(4, 2), NetIP(16, MappedAddr(2)), NetIP(16, PlainV6), NilIP }

Whitelists == { {}, {Cidr(4, 2, 1), Bare(6, PlainV6)} }

Lookups == {"L1", "L2"}

Updaters == {"U1", "U2"}

Gens == 0..MaxUpdates


\* ------------------------------------------------------------------- state

VARIABLES
    table,      \* IPChecker.table: the set of stored prefixes
    tableGen,   \* which list built it: NewIPChecker's is 0, then 1, 2, ...
    cacheRef,   \* IPChecker.cache: the cache instance in use
    caches,     \* every cache instance's record for the client's key
    mu,         \* IPChecker.mu: "free" or the updater holding the write lock
    whitelist,  \* IPChecker.whitelist
    client,     \* the client address whose requests are followed
    lk,         \* the lookups (ReqAllowed calls) in flight
    up,         \* the UpdateRanges calls in flight
    refresh,    \* background refreshes of cache records in flight
    history,    \* the lists given to NewIPChecker and UpdateRanges, in order
    completed,  \* the generation of the last UpdateRanges that returned
    ips,        \* dynamicBlocklist.ips: the keys of the map
    persistToFile, \* dynamicBlocklist.persistToFile (filePath is the file below)
    disk,       \* the blocklist file: whether it exists, and its lines
    calls,      \* per string, the Add and Remove calls made so far
    seed,       \* the file's entries when EnableFilePersistence was called
    saves,      \* of the Add and Remove calls counted: "none" has saved yet,
                \* "ok" (every saveToFile worked) or "failed"
    dmu,        \* dynamicBlocklist.mu: the goroutine holding the write lock
                \* (0 for none) and the goroutines holding read locks
    gos,        \* the goroutines calling Add, List and Contains at once
    blocklistFile, \* Defender.BlocklistFile is not ""
    fRanges,    \* FileFetcher.ranges
    fEvents,    \* file-system events the watcher has not yet received
    watch,      \* FileFetcher.watchLoop's position
    hs,         \* the admin requests being served
    installed,  \* the list given to the most recent UpdateRanges
    acked,      \* strings a 201 answered POST added, not removed since
    gone,       \* strings a 200 answered DELETE removed, not added since
    answer,     \* what the ReqAllowed call that has just returned answered
    Ranges,     \* Defender.Ranges, as the middleware was provisioned
    request,    \* the RemoteAddr of the request ServeHTTP served last
    outcome,    \* what ServeHTTP did with it and what it returned
    fetched,    \* what the last FetchIPRanges call returned
    changes,    \* the lists a recording onChange callback was called with
    loads,      \* each loadRanges call so far: the I/O it met, its error
    closes,     \* what each FileFetcher.Close call so far returned
    found,      \* table.Contains' answers for the client, by the form looked up
    defenders,  \* DefenderAdmin.defenders: the ids registered
    phase,      \* the Defender's life: configured, rejected by Validate, running
    Responder,  \* Defender.Responder is not nil
    apiResp,    \* the admin request served last and its response
    tarpit,     \* one tarpit ServeHTTP call: its position, clock and counters
    fr          \* a FileResponder, its file and the Respond calls made on it

chkVars == <<table, tableGen, cacheRef, caches, mu, whitelist, client, lk, up,
             refresh, history, completed>>

dynVars == <<ips, persistToFile, disk, calls, seed, saves, dmu, gos>>

admVars == <<blocklistFile, fRanges, fEvents, watch, hs, installed, acked, gone,
             answer>>

mwVars == <<Ranges, request, outcome>>

ffVars == <<fetched, changes, loads, closes>>

tblVars == <<found>>

apiVars == <<defenders, phase, Responder, apiResp>>

tpVars == <<tarpit, fr>>

vars == <<chkVars, dynVars, admVars, mwVars, ffVars, tblVars, apiVars, tpVars>>

NoDisk == [exists |-> FALSE, lines |-> <<>>]

\* sync.RWMutex, nobody holding it
Unlocked == [writer |-> 0, readers |-> {}]

\* A run of the IPChecker alone has no dynamic blocklist.
NoDynamic ==
    /\ ips = {}
    /\ persistToFile = FALSE
    /\ disk = NoDisk
    /\ calls = <<>>
    /\ seed = {}
    /\ saves = "none"
    /\ dmu = Unlocked
    /\ gos = <<>>

\* A run without a Defender has no admin requests and no FileFetcher.
NoAdmin ==
    /\ blocklistFile = FALSE
    /\ fRanges = <<>>
    /\ fEvents = 0
    /\ watch = [pc |-> "off", copy |-> <<>>]
    /\ hs = <<>>
    /\ installed = <<>>
    /\ acked = {}
    /\ gone = {}
    /\ answer = "none"

\* Before the first request there is no RemoteAddr and no outcome.
NoRequest == [served |-> FALSE]

\* A run without the middleware serves no request.
NoMiddleware ==
    /\ Ranges = <<>>
    /\ request = NoRequest
    /\ outcome = NoRequest

\* A run without an admin registry and without a responder call.
NoApi ==
    /\ defenders = {}
    /\ phase = "running"
    /\ Responder = TRUE
    /\ apiResp = NoRequest
    /\ tarpit = NoRequest
    /\ fr = NoRequest

\* A run without a FileFetcher of its own records no call of it, and no
\* lookup made on the table directly.
NoFetcher ==
    /\ fetched = NoRequest
    /\ changes = <<>>
    /\ loads = <<>>
    /\ closes = <<>>
    /\ found = <<>>
    /\ NoApi

Absent == [val |-> "absent", gen |-> 0]

\* Lookups of different addresses use different cache keys and meet only in
\* the table, the cache reference and the lock, so a run follows the record
\* of one key, the client's, in every cache instance.
EmptyCache == Absent

IdleLookup ==
    [pc |-> "idle", ip |-> Addr(0, 0), cache |-> 0, contains |-> FALSE, gen |-> 0,
     ret |-> FALSE, start |-> 0, overlap |-> FALSE, hit |-> FALSE, valid |-> FALSE]

IdleUpdate == [pc |-> "idle", list |-> <<>>]

\* sturdyc.New: a cache instance with no records.
NewCache(cs, g) == [cs EXCEPT ![g] = EmptyCache]

\* NewIPChecker
InitChecker ==
    \E cidrRanges \in RangeLists, wl \in Whitelists, ip \in ClientIPs \ {NilIP} :
        /\ client = ip
        /\ table = buildTable(cidrRanges)
        /\ tableGen = 0
        /\ cacheRef = 0
        /\ caches = [g \in Gens |-> EmptyCache]
        /\ mu = "free"
        /\ whitelist = wl
        /\ lk = [p \in Lookups |-> IdleLookup]
        /\ up = [u \in Updaters |-> IdleUpdate]
        /\ refresh = {}
        /\ history = <<cidrRanges>>
        /\ completed = 0
        /\ NoDynamic
        /\ NoAdmin
        /\ NoMiddleware
        /\ NoFetcher

\* ---------------------------------------------------------- IPChecker
\* A lookup is ReqAllowed -> IPInRanges -> cache.GetOrFetch -> fetch function.
\* Its steps are the points where it reads or writes shared state: the read
\* of c.cache (no lock), the cache's own lookup, the table read under the
\* read lock, and the cache's store of the fetched answer.

Active(p) == lk[p].pc \in {"get", "fetch", "store"}

\* A cache instance that UpdateRanges has replaced lives on only while a
\* lookup or a refresh that took it is still running; after that nothing can
\* reach its records, and they are dropped.
Collect(cs, lks, rfs, ref) ==
    [g \in Gens |->
        IF \/ g = ref
           \/ \E p \in Lookups : lks[p].pc \in {"get", "fetch", "store"} /\ lks[p].cache = g
           \/ \E r \in rfs : r.cache = g
        THEN cs[g] ELSE Absent]

\* A lookup that has its result returns before any other step is taken: the
\* return touches nothing shared, so taking it first loses no behaviour.
NoneDone == \A p \in Lookups : lk[p].pc # "done"

\* ReqAllowed without the whitelist test, for comparison.
ReqAllowedNoWhitelist(p, clientIP) ==
    LET r == ipToAddr(clientIP)
    IN  /\ NoneDone
        /\ lk[p].pc = "idle"
        /\ lk' = [lk EXCEPT ![p] =
                IF ~r.ok
                THEN [IdleLookup EXCEPT !.pc = "done", !.ret = FALSE]
                ELSE [IdleLookup EXCEPT !.pc = "get", !.ip = Addr(r.fam, r.addr),
                                        !.valid = TRUE, !.cache = cacheRef,
                                        !.start = completed,
                                        !.overlap = (mu # "free")]]
        /\ UNCHANGED <<dynVars, admVars, mwVars, ffVars, tblVars, apiVars, tpVars>>
        /\ UNCHANGED <<table, tableGen, cacheRef, caches, mu, whitelist, client, up,
                       refresh, history, completed>>

\* ReqAllowed up to the read of c.cache in IPInRanges: an address that does
\* not convert is refused, a whitelisted one is allowed at once.
ReqAllowed(p, clientIP) ==
    LET r == ipToAddr(clientIP)
    IN  /\ NoneDone
        /\ lk[p].pc = "idle"
        /\ lk' = [lk EXCEPT ![p] =
                IF ~r.ok
                THEN [IdleLookup EXCEPT !.pc = "done", !.ret = FALSE]
                ELSE IF WhitelistMatches(whitelist, Addr(r.fam, r.addr))
                THEN [IdleLookup EXCEPT !.pc = "done", !.ip = Addr(r.fam, r.addr),
                                        !.valid = TRUE, !.ret = TRUE]
                ELSE [IdleLookup EXCEPT !.pc = "get", !.ip = Addr(r.fam, r.addr),
                                        !.valid = TRUE, !.cache = cacheRef,
                                        !.start = completed,
                                        !.overlap = (mu # "free")]]
        /\ UNCHANGED <<dynVars, admVars, mwVars, ffVars, tblVars, apiVars, tpVars>>
        /\ UNCHANGED <<table, tableGen, cacheRef, caches, mu, whitelist, client, up,
                       refresh, history, completed>>

\* GetOrFetch, a hit: the stored answer is returned, a stored "missing"
\* record as not found; the table is not consulted.
CacheHit(p) ==
    LET e == caches[lk[p].cache]
    IN  /\ NoneDone
        /\ lk[p].pc = "get"
        /\ e.val # "absent"
        /\ lk' = [lk EXCEPT ![p].pc = "done", ![p].hit = TRUE, ![p].gen = e.gen,
                            ![p].cache = 0, ![p].ret = ~(e.val = "true")]
        /\ caches' = Collect(caches, lk', refresh, cacheRef)
        /\ UNCHANGED <<dynVars, admVars, mwVars, ffVars, tblVars, apiVars, tpVars>>
        /\ UNCHANGED <<table, tableGen, cacheRef, mu, whitelist, client, up,
                       refresh, history, completed>>

\* GetOrFetch, a miss: the fetch function will run.
CacheMiss(p) ==
    /\ NoneDone
    /\ lk[p].pc = "get"
    /\ caches[lk[p].cache].val = "absent"
    /\ lk' = [lk EXCEPT ![p].pc = "fetch"]
    /\ UNCHANGED <<dynVars, admVars, mwVars, ffVars, tblVars, apiVars, tpVars>>
    /\ UNCHANGED <<table, tableGen, cacheRef, caches, mu, whitelist, client, up,
                   refresh, history, completed>>

\* The fetch function: c.table.Contains under the read lock.
Fetch(p) ==
    /\ NoneDone
    /\ lk[p].pc = "fetch"
    /\ mu = "free"
    /\ lk' = [lk EXCEPT ![p].pc = "store", ![p].gen = tableGen,
                        ![p].contains = Contains(table, lk[p].ip)]
    /\ UNCHANGED <<dynVars, admVars, mwVars, ffVars, tblVars, apiVars, tpVars>>
    /\ UNCHANGED <<table, tableGen, cacheRef, caches, mu, whitelist, client, up,
                   refresh, history, completed>>

\* GetOrFetch coalesces the misses of one key on one cache instance: a
\* lookup waiting behind another's fetch gets that fetch's answer.
JoinFetch(p, q) ==
    /\ NoneDone
    /\ p # q
    /\ lk[p].pc = "fetch"
    /\ lk[q].pc = "store"
    /\ lk[q].cache = lk[p].cache
    /\ lk[q].ip = lk[p].ip
    /\ lk' = [lk EXCEPT ![p].pc = "done", ![p].gen = lk[q].gen,
                        ![p].cache = 0, ![p].ret = ~lk[q].contains]
    /\ UNCHANGED <<dynVars, admVars, mwVars, ffVars, tblVars, apiVars, tpVars>>
    /\ UNCHANGED <<table, tableGen, cacheRef, caches, mu, whitelist, client, up,
                   refresh, history, completed>>

\* The cache records the fetched answer ("true", or a missing record for
\* ErrNotFound) in the instance the lookup called, and IPInRanges returns.
Store(p) ==
    /\ NoneDone
    /\ lk[p].pc = "store"
    /\ lk' = [lk EXCEPT ![p].pc = "done", ![p].ret = ~lk[p].contains,
                        ![p].cache = 0, ![p].contains = FALSE]
    /\ caches' = Collect([caches EXCEPT ![lk[p].cache] =
                            [val |-> IF lk[p].contains THEN "true" ELSE "missing",
                             gen |-> lk[p].gen]],
                         lk', refresh, cacheRef)
    /\ UNCHANGED <<dynVars, admVars, mwVars, ffVars, tblVars, apiVars, tpVars>>
    /\ UNCHANGED <<table, tableGen, cacheRef, mu, whitelist, client, up, refresh,
                   history, completed>>

\* The caller takes the result.
Return(p) ==
    /\ lk[p].pc = "done"
    /\ lk' = [lk EXCEPT ![p] = IdleLookup]
    /\ UNCHANGED <<dynVars, admVars, mwVars, ffVars, tblVars, apiVars, tpVars>>
    /\ UNCHANGED <<table, tableGen, cacheRef, caches, mu, whitelist, client, up,
                   refresh, history, completed>>

\* A record's time to live ends, or it is evicted.
Expire(g) ==
    /\ NoneDone
    /\ caches[g].val # "absent"
    /\ caches' = [caches EXCEPT ![g] = Absent]
    /\ UNCHANGED <<dynVars, admVars, mwVars, ffVars, tblVars, apiVars, tpVars>>
    /\ UNCHANGED <<table, tableGen, cacheRef, mu, whitelist, client, lk, up, refresh,
                   history, completed>>

\* Early refresh: a hit on an ageing record makes the cache run the fetch
\* function again in the background, for the instance that was hit.
RefreshFetch(g) ==
    /\ NoneDone
    /\ refresh = {}
    /\ caches[g].val # "absent"
    /\ mu = "free"
    /\ LET a == ipToAddr(client)
       IN  refresh' = {[cache |-> g, gen |-> tableGen,
                        contains |-> Contains(table, Addr(a.fam, a.addr))]}
    /\ UNCHANGED <<dynVars, admVars, mwVars, ffVars, tblVars, apiVars, tpVars>>
    /\ UNCHANGED <<table, tableGen, cacheRef, caches, mu, whitelist, client, lk, up,
                   history, completed>>

RefreshStore(r) ==
    /\ NoneDone
    /\ r \in refresh
    /\ refresh' = refresh \ {r}
    /\ caches' = Collect([caches EXCEPT ![r.cache] =
                            [val |-> IF r.contains THEN "true" ELSE "missing",
                             gen |-> r.gen]],
                         lk, refresh', cacheRef)
    /\ UNCHANGED <<dynVars, admVars, mwVars, ffVars, tblVars, apiVars, tpVars>>
    /\ UNCHANGED <<table, tableGen, cacheRef, mu, whitelist, client, lk, up, history,
                   completed>>

\* UpdateRanges entered without waiting for the write lock, for comparison.
UpdateLockNotWaiting(u, cidrRanges) ==
    /\ NoneDone
    /\ up[u].pc = "idle"
    /\ Len(history) <= MaxUpdates
    /\ mu' = u
    /\ up' = [up EXCEPT ![u] = [pc |-> "locked", list |-> cidrRanges]]
    /\ lk' = [p \in Lookups |->
                IF Active(p) THEN [lk[p] EXCEPT !.overlap = TRUE] ELSE lk[p]]
    /\ UNCHANGED <<dynVars, admVars, mwVars, ffVars, tblVars, apiVars, tpVars>>
    /\ UNCHANGED <<table, tableGen, cacheRef, caches, whitelist, client, refresh,
                   history, completed>>

\* UpdateRanges: c.mu.Lock()
UpdateLock(u, cidrRanges) ==
    /\ NoneDone
    /\ up[u].pc = "idle"
    /\ mu = "free"
    /\ Len(history) <= MaxUpdates
    /\ mu' = u
    /\ up' = [up EXCEPT ![u] = [pc |-> "locked", list |-> cidrRanges]]
    /\ lk' = [p \in Lookups |->
                IF Active(p) THEN [lk[p] EXCEPT !.overlap = TRUE] ELSE lk[p]]
    /\ UNCHANGED <<dynVars, admVars, mwVars, ffVars, tblVars, apiVars, tpVars>>
    /\ UNCHANGED <<table, tableGen, cacheRef, caches, whitelist, client, refresh,
                   history, completed>>

\* UpdateRanges: c.table = buildTable(cidrRanges, c.log)
UpdateTable(u) ==
    /\ NoneDone
    /\ up[u].pc = "locked"
    /\ table' = buildTable(up[u].list)
    /\ tableGen' = Len(history)
    /\ history' = Append(history, up[u].list)
    /\ up' = [up EXCEPT ![u].pc = "built"]
    /\ UNCHANGED <<dynVars, admVars, mwVars, ffVars, tblVars, apiVars, tpVars>>
    /\ UNCHANGED <<cacheRef, caches, mu, whitelist, client, lk, refresh, completed>>

\* UpdateRanges that keeps the cache it had, for comparison.
UpdateCacheKept(u) ==
    /\ NoneDone
    /\ up[u].pc = "built"
    /\ mu' = "free"
    /\ completed' = tableGen
    /\ up' = [up EXCEPT ![u] = IdleUpdate]
    /\ UNCHANGED <<dynVars, admVars, mwVars, ffVars, tblVars, apiVars, tpVars>>
    /\ UNCHANGED <<table, tableGen, cacheRef, caches, whitelist, client, lk, refresh,
                   history>>

\* UpdateRanges: c.cache = sturdyc.New(...), then the deferred Unlock.
UpdateCache(u) ==
    /\ NoneDone
    /\ up[u].pc = "built"
    /\ cacheRef' = tableGen
    /\ caches' = Collect(NewCache(caches, tableGen), lk, refresh, tableGen)
    /\ mu' = "free"
    /\ completed' = tableGen
    /\ up' = [up EXCEPT ![u] = IdleUpdate]
    /\ UNCHANGED <<dynVars, admVars, mwVars, ffVars, tblVars, apiVars, tpVars>>
    /\ UNCHANGED <<table, tableGen, whitelist, client, lk, refresh, history>>

NextChecker ==
    \/ \E p \in Lookups : Return(p)
    \/ \E p \in Lookups, ip \in {client, NilIP} : ReqAllowed(p, ip)
    \/ \E p \in Lookups : CacheHit(p)
    \/ \E p \in Lookups : CacheMiss(p)
    \/ \E p \in Lookups : Fetch(p)
    \/ \E p, q \in Lookups : JoinFetch(p, q)
    \/ \E p \in Lookups : Store(p)
    \/ \E g \in Gens : Expire(g)
    \/ \E g \in Gens : RefreshFetch(g)
    \/ \E r \in refresh : RefreshStore(r)
    \/ \E u \in Updaters, l \in RangeLists : UpdateLock(u, l)
    \/ \E u \in Updaters : UpdateTable(u)
    \/ \E u \in Updaters : UpdateCache(u)

SpecChecker == InitChecker /\ [][NextChecker]_vars

\* ------------------------------------------------- claims on the IPChecker

Answered(p) == lk[p].pc = "done" /\ lk[p].valid

Whitelisted(p) == WhitelistMatches(whitelist, lk[p].ip)

\* C1: a ReqAllowed of a non-whitelisted address that ran with no
\* UpdateRanges in progress returns false exactly when the list given to the
\* most recent NewIPChecker or UpdateRanges covers the address, whether the
\* answer came from the table or from the cache.
C1_AnswerMatchesLatestList ==
    \A p \in Lookups :
        (Answered(p) /\ ~Whitelisted(p) /\ ~lk[p].overlap)
            => (lk[p].ret = FALSE <=> ListCovers(history[lk[p].start + 1], lk[p].ip))

\* A not-blocked answer served from the cache after an UpdateRanges.
C1_Witness ==
    \E p \in Lookups :
        /\ Answered(p) /\ ~Whitelisted(p) /\ ~lk[p].overlap
        /\ lk[p].hit /\ lk[p].ret = TRUE /\ lk[p].start >= 1
        /\ \E g \in 1..Len(history) : ListCovers(history[g], lk[p].ip)

\* C2: a ReqAllowed of a whitelisted address returns true whatever the
\* ranges are, its answer never comes from the cache, and no cache instance
\* ever holds a record for a whitelisted address.
C2_WhitelistDominates ==
    /\ \A p \in Lookups :
          (Answered(p) /\ Whitelisted(p)) => (lk[p].ret = TRUE /\ ~lk[p].hit)
    /\ LET a == ipToAddr(client)
       IN  WhitelistMatches(whitelist, Addr(a.fam, a.addr))
              => \A g \in Gens : caches[g].val = "absent"

\* A whitelisted address that the installed table covers was allowed, after
\* an UpdateRanges.
C2_Witness ==
    \E p \in Lookups :
        /\ Answered(p) /\ Whitelisted(p) /\ lk[p].ret = TRUE
        /\ Contains(table, lk[p].ip)
        /\ completed >= 1

\* C3: in every interleaving, the answer of a lookup comes from a table no
\* older than the one installed by the last UpdateRanges that had returned
\* when the lookup started, and it is that table's answer; a lookup that no
\* UpdateRanges overlaps answers from exactly that last table.
C3_NoStaleDecision ==
    \A p \in Lookups :
        (Answered(p) /\ ~Whitelisted(p)) =>
            /\ lk[p].gen >= lk[p].start
            /\ lk[p].ret = ~Contains(buildTable(history[lk[p].gen + 1]), lk[p].ip)
            /\ ~lk[p].overlap => lk[p].gen = lk[p].start

\* A lookup that started after the rebuild has its answer while an older
\* lookup, which read the previous table, is still about to store its own.
C3_Witness ==
    \E p, q \in Lookups :
        /\ Answered(p) /\ ~Whitelisted(p) /\ ~lk[p].overlap /\ lk[p].start >= 1
        /\ lk[q].pc = "store" /\ lk[q].gen < lk[p].start
        /\ lk[q].contains # ~lk[p].ret

\* ------------------------------------------------------- dynamicBlocklist
\* The map d.ips is the set of its keys. The file is a sequence of lines. Go
\* ranges over a map in no fixed order; nothing that reads a list made from
\* a map depends on the order, and ListOf fixes one.

RECURSIVE ListOf(_)
ListOf(S) ==
    IF S = {} THEN <<>>
    ELSE LET x == CHOOSE y \in S : TRUE IN <<x>> \o ListOf(S \ {x})

Elems(list) == { list[i] : i \in 1..Len(list) }

\* saveToFile's scan of the file it is about to rewrite: the trimmed lines
\* that are neither empty nor comments.
ExistingIPs(dsk) ==
    IF dsk.exists
    THEN { l \in Elems(dsk.lines) : l.kind \notin {"blank", "comment"} }
    ELSE {}

\* saveToFile: the entries it writes.
AllIPs(dsk, m) == ExistingIPs(dsk) \cup m

\* How a saveToFile call ends: it works, or the file cannot be opened for
\* reading, or os.Create fails, or the write fails after os.Create has
\* truncated the file.
SaveOutcomes == {"ok", "open", "create", "flush"}

\* saveToFile as one step: the file afterwards and whether an error is
\* returned.
saveToFile(dsk, m, persist, io) ==
    IF ~persist THEN [disk |-> dsk, err |-> FALSE]
    ELSE IF io = "open" /\ dsk.exists THEN [disk |-> dsk, err |-> TRUE]
    ELSE IF io = "create" THEN [disk |-> dsk, err |-> TRUE]
    ELSE IF io = "flush" THEN [disk |-> [exists |-> TRUE, lines |-> <<>>], err |-> TRUE]
    ELSE [disk |-> [exists |-> TRUE, lines |-> ListOf(AllIPs(dsk, m))], err |-> FALSE]

\* Add: the map after the loop over the arguments.
AddIps(m, list) == m \cup Elems(list)

\* Remove: the map after delete. The variant that deletes nothing is kept
\* for comparison.
RemoveIpsKept(m, ip) == m

RemoveIps(m, ip) == m \ {ip}

\* List
List(m) == ListOf(m)

\* Calls of Add and Remove in one run.
MaxCalls == 4

\* Strings given to Add and Remove: one IPv4 CIDR with host bits set, one
\* IPv6 host, one string that is no CIDR.
DynA == Cidr(4, Pow2(V4Bits) - 1, 1)

DynB == Cidr(6, PlainV6, V6Bits)

DynStrings == {DynA, DynB, Junk(1)}

AddArgs == { <<DynA>>, <<DynB, Junk(1)>>, <<DynA, DynB>> }

\* A line an operator wrote into the blocklist file.
FileLine == Cidr(6, 2, V6Bits)

InitialDisks ==
    { NoDisk,
      [exists |-> TRUE, lines |-> <<Comment(1), FileLine, Blank>>] }

NoCalls == [s \in DynStrings |-> [adds |-> 0, removes |-> 0, inserted |-> 0, deleted |-> 0]]

TotalCalls ==
    LET n(s) == calls[s].adds + calls[s].removes
    IN  n(DynA) + n(DynB) + n(Junk(1))

SavesAfter(err, persist) ==
    IF ~persist THEN saves
    ELSE IF err \/ saves = "failed" THEN "failed"
    ELSE "ok"

\* A run of the dynamic blocklist alone has no IPChecker.
NoChecker ==
    /\ table = {}
    /\ tableGen = 0
    /\ cacheRef = 0
    /\ caches = [g \in Gens |-> EmptyCache]
    /\ mu = "free"
    /\ whitelist = {}
    /\ client = Addr(0, 0)
    /\ lk = <<>>
    /\ up = <<>>
    /\ refresh = {}
    /\ history = <<>>
    /\ completed = 0

\* newDynamicBlocklist
InitDyn ==
    \E d \in InitialDisks :
        /\ ips = {}
        /\ persistToFile = FALSE
        /\ disk = d
        /\ calls = NoCalls
        /\ seed = {}
        /\ saves = "none"
        /\ dmu = Unlocked
        /\ gos = <<>>
        /\ NoChecker
        /\ NoAdmin
        /\ NoMiddleware
        /\ NoFetcher

\* EnableFilePersistence
EnableFilePersistence ==
    /\ ~persistToFile
    /\ persistToFile' = TRUE
    /\ seed' = ExistingIPs(disk)
    /\ UNCHANGED <<ips, disk, calls, saves, dmu, gos>>
    /\ UNCHANGED <<apiVars, tpVars, tblVars, mwVars, ffVars, chkVars, admVars, mwVars, ffVars, tblVars, apiVars, tpVars>>

\* Add
Add(list, io) ==
    LET m == AddIps(ips, list)
        r == saveToFile(disk, m, persistToFile, io)
    IN  /\ TotalCalls < MaxCalls
        /\ ips' = m
        /\ disk' = r.disk
        /\ saves' = SavesAfter(r.err, persistToFile)
        /\ calls' = [s \in DynStrings |->
                        IF s \in Elems(list)
                        THEN [calls[s] EXCEPT !.adds = @ + 1,
                                              !.inserted = @ + (IF s \in ips THEN 0 ELSE 1)]
                        ELSE calls[s]]
        /\ UNCHANGED <<persistToFile, seed, dmu, gos>>
        /\ UNCHANGED <<apiVars, tpVars, tblVars, mwVars, ffVars, chkVars, admVars, mwVars, ffVars, tblVars, apiVars, tpVars>>

\* Remove
Remove(ip, io) ==
    LET exists == ip \in ips
        m == IF exists THEN RemoveIps(ips, ip) ELSE ips
        r == IF exists THEN saveToFile(disk, m, persistToFile, io)
             ELSE [disk |-> disk, err |-> FALSE]
    IN  /\ TotalCalls < MaxCalls
        /\ ips' = m
        /\ disk' = r.disk
        /\ saves' = IF exists THEN SavesAfter(r.err, persistToFile) ELSE saves
        /\ calls' = [calls EXCEPT ![ip].removes = @ + 1,
                                  ![ip].deleted = @ + (IF exists THEN 1 ELSE 0)]
        /\ UNCHANGED <<persistToFile, seed, dmu, gos>>
        /\ UNCHANGED <<apiVars, tpVars, tblVars, mwVars, ffVars, chkVars, admVars, mwVars, ffVars, tblVars, apiVars, tpVars>>

NextDyn ==
    \/ EnableFilePersistence
    \/ \E list \in AddArgs, io \in SaveOutcomes : Add(list, io)
    \/ \E ip \in DynStrings, io \in SaveOutcomes : Remove(ip, io)

SpecDyn == InitDyn /\ [][NextDyn]_vars

InList(s, list) == \E i \in 1..Len(list) : list[i] = s

\* C7, as stated: List() contains s exactly when the calls of Add that
\* included s outnumber the calls of Remove(s).
C7_NetCountOfCalls ==
    \A s \in DynStrings :
        InList(s, List(ips)) <=> (calls[s].adds - calls[s].removes > 0)

\* C7, amended: List() contains s exactly when the calls of Add that put s
\* into the map outnumber the calls of Remove(s) that found it there; a
\* repeated Add and a Remove of an absent string change nothing.
C7_NetCountOfChanges ==
    \A s \in DynStrings :
        InList(s, List(ips)) <=> (calls[s].inserted - calls[s].deleted > 0)

C7_Witness ==
    /\ calls[DynA].adds = 2
    /\ calls[DynA].removes = 1
    /\ calls[DynA].inserted = 1
    /\ calls[DynA].deleted = 1
    /\ ~InList(DynA, List(ips))

\* C10: with persistence enabled and every save so far successful, the
\* file's lines are the entries it held when persistence was enabled
\* together with the current dynamic set.
C10_FileIsSeedPlusDynamic ==
    (persistToFile /\ saves = "ok") => Elems(disk.lines) = seed \cup ips

\* ------------------------------------------------------------ FileFetcher

\* validateIPOrCIDR: the line parses as a CIDR or as an address.
validateIPOrCIDR(s) ==
    \/ ParsePrefix(s).ok
    \/ s.kind = "bare" /\ s.fam \in {4, 6} /\ s.addr < Pow2(Width(s.fam))

\* A line with white space before or after its text.
Padded(s) == [kind |-> "padded", inner |-> s]

\* A line longer than bufio.Scanner's buffer can hold.
Long(n) == Str("long", 0, n, 0)

\* strings.TrimSpace
TrimSpace(l) == IF l.kind = "padded" THEN l.inner ELSE l

\* scanner.Scan stops at a line that does not fit its buffer, and
\* scanner.Err then reports it.
TooLong(lines) == \E i \in 1..Len(lines) : lines[i].kind = "long"

\* loadRanges: the trimmed lines that are neither blank nor comments and that
\* validate, in file order.
RECURSIVE loadRanges(_)
loadRanges(lines) ==
    IF lines = <<>> THEN <<>>
    ELSE LET l == TrimSpace(Head(lines))
         IN  IF l.kind \in {"blank", "comment"} \/ ~validateIPOrCIDR(l)
             THEN loadRanges(Tail(lines))
             ELSE <<l>> \o loadRanges(Tail(lines))

\* What the file system does to one call: nothing, os.Open fails, the
\* scanner fails, watcher.Add fails.
IOs == {"ok", "open", "read", "watch"}

\* loadRanges leaving f.ranges as it was, for comparison.
loadRangesOfKept(dsk, ranges, io) ==
    IF ~dsk.exists \/ io = "open" THEN [err |-> "open", ranges |-> ranges]
    ELSE IF io = "read" THEN [err |-> "read", ranges |-> ranges]
    ELSE [err |-> "nil", ranges |-> ranges]

\* loadRanges assigning f.ranges before its error checks, for comparison.
loadRangesOfCleared(dsk, ranges, io) ==
    IF ~dsk.exists \/ io = "open" THEN [err |-> "open", ranges |-> <<>>]
    ELSE IF io = "read" THEN [err |-> "read", ranges |-> <<>>]
    ELSE [err |-> "nil", ranges |-> loadRanges(dsk.lines)]

\* f.loadRanges(): its error, and f.ranges after it. A file that is missing
\* does not open; f.ranges is assigned only past the scanner's error check,
\* which fails on a read fault and on a line too long for the scanner.
loadRangesOf(dsk, ranges, io) ==
    IF ~dsk.exists \/ io = "open" THEN [err |-> "open", ranges |-> ranges]
    ELSE IF io = "read" \/ TooLong(dsk.lines) THEN [err |-> "read", ranges |-> ranges]
    ELSE [err |-> "nil", ranges |-> loadRanges(dsk.lines)]

\* FetchIPRanges without its check for an empty list, for comparison.
FetchIPRangesEmptyOk(ranges) ==
    [nil |-> FALSE, ranges |-> ranges, err |-> FALSE, copy |-> TRUE]

\* FetchIPRanges returning f.ranges itself, for comparison.
FetchIPRangesNoCopy(ranges) ==
    IF Len(ranges) = 0 THEN [nil |-> TRUE, ranges |-> <<>>, err |-> TRUE, copy |-> TRUE]
    ELSE [nil |-> FALSE, ranges |-> ranges, err |-> FALSE, copy |-> FALSE]

\* FetchIPRanges: a copy of the loaded list (a slice of its own, made by
\* make and copy) and no error; when the list is empty, nil and an error.
FetchIPRanges(ranges) ==
    IF Len(ranges) = 0 THEN [nil |-> TRUE, ranges |-> <<>>, err |-> TRUE, copy |-> TRUE]
    ELSE [nil |-> FALSE, ranges |-> ranges, err |-> FALSE, copy |-> TRUE]

\* watchLoop handing f.ranges itself to onChange, for comparison.
rangesCopyAlias(ranges) == [list |-> ranges, own |-> FALSE]

\* watchLoop's rangesCopy: the list, in a slice of its own.
rangesCopy(ranges) == [list |-> ranges, own |-> TRUE]

\* File-system events the watcher can have waiting: the kernel merges an
\* event into an equal one that has not been read.
MaxEvents == 1

Notify(n) == IF n < MaxEvents THEN n + 1 ELSE MaxEvents

\* ---------------------------------------------------- Defender, admin API

\* Defender.Ranges
StaticRanges == <<Cidr(4, 0, 1)>>

InitialFile == [exists |-> TRUE, lines |-> <<Comment(1), FileLine, Blank>>]

\* Admin requests are served concurrently. The runs followed have two at a
\* time without a blocklist file and, with one, one at a time beside the
\* file watcher.
Handlers == {"A1", "A2"}

Workers(hasFile) == IF hasFile THEN {"A1"} ELSE Handlers

\* The "ips" arrays of POST bodies, and the last path segments of DELETEs.
PostBodies == { <<DynA>>, <<DynB>>, <<Bare(4, 1)>>, <<>> }

DeletePaths == { DynA, DynB, Blank }

\* Clients whose requests are followed: one inside DynA, one that is DynB's
\* host, one that is the host of the operator's line.
ClientA == NetIP(4, Pow2(V4Bits) - 1)

ClientB == NetIP(16, PlainV6)

ClientF == NetIP(16, 2)

\* The Defenders followed: with or without a blocklist file, the client,
\* the whitelist.
Defenders ==
    { [file |-> FALSE, ip |-> ClientA, wl |-> {}],
      [file |-> FALSE, ip |-> ClientB, wl |-> {}],
      [file |-> FALSE, ip |-> ClientA, wl |-> {Bare(4, Pow2(V4Bits) - 1)}],
      [file |-> TRUE, ip |-> ClientA, wl |-> {}],
      [file |-> TRUE, ip |-> ClientF, wl |-> {}] }

AllAddrs ==
    { Addr(4, n) : n \in 0..(Pow2(V4Bits) - 1) } \cup { Addr(6, n) : n \in 0..(Pow2(V6Bits) - 1) }

\* The addresses the table refuses.
Blocked(tbl) == { a \in AllAddrs : Contains(tbl, a) }

\* handleGetBlocklist: the "ips" array of the response, each entry with its
\* source; a string in both lists is reported as dynamic.
GetBlocklist(hasFile, ranges, m) ==
    LET fileRanges == IF hasFile THEN Elems(FetchIPRanges(ranges).ranges) ELSE {}
    IN  { [ip |-> s, source |-> "file"] : s \in fileRanges \ m }
            \cup { [ip |-> s, source |-> "dynamic"] : s \in m }

Listed(resp) == { e.ip : e \in resp }

NoPre == [again |-> FALSE, ips |-> {}, get |-> {}, blocked |-> {}]

IdleHandler ==
    [pc |-> "idle", op |-> "none", arg |-> <<>>, before |-> <<>>, content |-> <<>>,
     list |-> <<>>,
     status |-> 0, rebuilt |-> FALSE, resp |-> {}, pre |-> NoPre, alone |-> TRUE]

\* Defender with its IPChecker and dynamic blocklist as the admin tests
\* build it; with a blocklist file, the FileFetcher has loaded the file and
\* persistence writes to the same file.
InitAdmin ==
    \E m \in Defenders :
        LET f == m.file
            ip == m.ip
            wl == m.wl
            loaded == IF f THEN loadRanges(InitialFile.lines) ELSE <<>>
        IN  /\ blocklistFile = f
            /\ disk = IF f THEN InitialFile ELSE NoDisk
            /\ persistToFile = f
            /\ seed = IF f THEN ExistingIPs(InitialFile) ELSE {}
            /\ saves = "none"
            /\ dmu = Unlocked
            /\ gos = <<>>
            /\ ips = {}
            /\ calls = NoCalls
            /\ fRanges = loaded
            /\ fEvents = 0
            /\ watch = [pc |-> IF f THEN "wait" ELSE "off", copy |-> <<>>]
            /\ hs = [h \in Handlers |-> IdleHandler]
            /\ installed = StaticRanges \o loaded
            /\ acked = {}
            /\ gone = {}
            /\ answer = "none"
            /\ table = buildTable(StaticRanges \o loaded)
            /\ tableGen = 0
            /\ cacheRef = 0
            /\ caches = [g \in Gens |-> EmptyCache]
            /\ mu = "free"
            /\ whitelist = wl
            /\ client = LET r == ipToAddr(ip) IN Addr(r.fam, r.addr)
            /\ lk = <<>>
            /\ up = <<>>
            /\ refresh = {}
            /\ history = <<>>
            /\ completed = 0
            /\ NoMiddleware
            /\ NoFetcher

\* Variables of the IPChecker model that a Defender run does not use.
chkRest == <<tableGen, cacheRef, mu, whitelist, client, lk, up, refresh, history,
             completed>>

\* A response or an answer that is ready is taken before any other step:
\* taking it touches nothing shared.
Quiet == answer = "none" /\ \A h \in Handlers : hs[h].pc # "done"

\* d.mu is held by the handler whose saveToFile has truncated the file and
\* not yet written it.
DmuFree == \A h \in Handlers : hs[h].pc # "flush"

Others(h) == \A g \in Handlers \ {h} : hs[g].pc = "idle"

\* Every request in flight now overlaps the mutation that h begins.
Overlapped(h) ==
    [g \in Handlers |-> IF g # h /\ hs[g].pc # "idle" THEN [hs[g] EXCEPT !.alone = FALSE]
                        ELSE hs[g]]

Reject(h, op, arg, code) ==
    [hs EXCEPT ![h] = [IdleHandler EXCEPT !.pc = "done", !.op = op, !.arg = arg,
                                          !.status = code]]

\* ReqAllowed on the Defender's IPChecker, start to end: whitelist, then the
\* cached decision for the key, then the table, whose answer is cached.
ServeRequest ==
    LET e == caches[cacheRef]
        blocked == IF e.val # "absent" THEN e.val = "true" ELSE Contains(table, client)
    IN  /\ Quiet
        /\ IF WhitelistMatches(whitelist, client)
           THEN /\ answer' = "allowed"
                /\ UNCHANGED caches
           ELSE /\ answer' = IF blocked THEN "blocked" ELSE "allowed"
                /\ caches' = [caches EXCEPT ![cacheRef] =
                                [val |-> IF blocked THEN "true" ELSE "missing", gen |-> 0]]
        /\ UNCHANGED <<apiVars, tpVars, tblVars, mwVars, ffVars, table, chkRest, dynVars>>
        /\ UNCHANGED <<blocklistFile, fRanges, fEvents, watch, hs, installed, acked, gone>>

\* The caller takes the answer.
TakeAnswer ==
    /\ answer # "none"
    /\ answer' = "none"
    /\ UNCHANGED <<apiVars, tpVars, tblVars, mwVars, ffVars, chkVars, dynVars>>
    /\ UNCHANGED <<blocklistFile, fRanges, fEvents, watch, hs, installed, acked, gone>>

\* handleGetBlocklist
handleGetBlocklist(h) ==
    /\ Quiet
    /\ h \in Workers(blocklistFile)
    /\ DmuFree
    /\ hs[h].pc = "idle"
    /\ hs' = [hs EXCEPT ![h] = [IdleHandler EXCEPT !.pc = "done", !.op = "get",
                                    !.status = 200,
                                    !.resp = GetBlocklist(blocklistFile, fRanges, ips)]]
    /\ UNCHANGED <<apiVars, tpVars, tblVars, mwVars, ffVars, chkVars, dynVars>>
    /\ UNCHANGED <<blocklistFile, fRanges, fEvents, watch, installed, acked, gone, answer>>

\* dynamicBlocklist.Add or Remove called by handler h, from the change of
\* the map (the new map is m) to the first point where another goroutine
\* can see the result: without persistence the call has returned; with it,
\* saveToFile has failed before writing, or os.Create has truncated the
\* file and the entries wait in the writer's buffer.
Mutate(h, rec, m, io) ==
    /\ ips' = m
    /\ IF ~persistToFile
       THEN /\ io = "ok"
            /\ hs' = [Overlapped(h) EXCEPT ![h] = [rec EXCEPT !.pc = "added"]]
            /\ UNCHANGED <<disk, fEvents>>
       ELSE IF io \in {"open", "create"}
       THEN /\ hs' = [Overlapped(h) EXCEPT ![h] = [rec EXCEPT !.pc = "done", !.status = 500]]
            /\ UNCHANGED <<disk, fEvents>>
       ELSE /\ io = "ok"
            /\ hs' = [Overlapped(h) EXCEPT ![h] =
                        [rec EXCEPT !.pc = "flush", !.before = disk.lines,
                                    !.content = ListOf(AllIPs(disk, m))]]
            /\ disk' = [exists |-> TRUE, lines |-> <<>>]
            /\ fEvents' = Notify(fEvents)

\* handleAddToBlocklist, to the return of dynamicBlocklist.Add or to the
\* truncation of the file inside it.
handleAddToBlocklist(h, body, io) ==
    LET again == body # <<>> /\ Elems(body) \subseteq acked
        rec == [IdleHandler EXCEPT
                    !.op = "post", !.arg = body, !.alone = Others(h),
                    !.pre = IF again
                            THEN [again |-> TRUE, ips |-> ips,
                                  get |-> Listed(GetBlocklist(blocklistFile, fRanges, ips)),
                                  blocked |-> Blocked(table)]
                            ELSE NoPre]
    IN  /\ Quiet
        /\ h \in Workers(blocklistFile)
        /\ hs[h].pc = "idle"
        /\ IF body = <<>> \/ \E i \in 1..Len(body) : ~HasSlash(body[i])
           THEN /\ io = "ok"
                /\ hs' = Reject(h, "post", body, 400)
                /\ UNCHANGED <<ips, disk, fEvents, gone>>
           ELSE /\ DmuFree
                /\ Mutate(h, rec, AddIps(ips, body), io)
                /\ gone' = gone \ Elems(body)
        /\ UNCHANGED <<apiVars, tpVars, tblVars, mwVars, ffVars, chkVars, persistToFile, calls, seed, saves, dmu, gos>>
        /\ UNCHANGED <<blocklistFile, fRanges, watch, installed, acked, answer>>

\* handleBlocklistItem, to the return of dynamicBlocklist.Remove or to the
\* truncation of the file inside it.
handleBlocklistItem(h, ip, io) ==
    LET rec == [IdleHandler EXCEPT !.op = "delete", !.arg = <<ip>>, !.alone = Others(h)]
    IN  /\ Quiet
        /\ h \in Workers(blocklistFile)
        /\ hs[h].pc = "idle"
        /\ IF ip = Blank
           THEN /\ io = "ok"
                /\ hs' = Reject(h, "delete", <<ip>>, 400)
                /\ UNCHANGED <<ips, disk, fEvents, acked>>
           ELSE /\ DmuFree
                /\ IF ip \notin ips
                   THEN /\ io = "ok"
                        /\ hs' = Reject(h, "delete", <<ip>>, 404)
                        /\ UNCHANGED <<ips, disk, fEvents, acked>>
                   ELSE /\ Mutate(h, rec, RemoveIps(ips, ip), io)
                        /\ acked' = acked \ {ip}
        /\ UNCHANGED <<apiVars, tpVars, tblVars, mwVars, ffVars, chkVars, persistToFile, calls, seed, saves, dmu, gos>>
        /\ UNCHANGED <<blocklistFile, fRanges, watch, installed, gone, answer>>

\* saveToFile's Flush and Close: the entries reach the file, or the write
\* fails and the file stays truncated; Add or Remove returns, and on an
\* error the handler answers 500.
Flush(h, ok) ==
    /\ Quiet
    /\ hs[h].pc = "flush"
    /\ IF ok
       THEN /\ disk' = [exists |-> TRUE, lines |-> hs[h].content]
            /\ fEvents' = Notify(fEvents)
            /\ hs' = [hs EXCEPT ![h].pc = "added", ![h].before = <<>>, ![h].content = <<>>]
       ELSE /\ hs' = [hs EXCEPT ![h].pc = "done", ![h].before = <<>>, ![h].content = <<>>,
                                    ![h].status = 500]
            /\ UNCHANGED <<disk, fEvents>>
    /\ UNCHANGED <<apiVars, tpVars, tblVars, mwVars, ffVars, chkVars, ips, persistToFile, calls, seed, saves, dmu, gos>>
    /\ UNCHANGED <<blocklistFile, fRanges, watch, installed, acked, gone, answer>>

\* Both handlers: allRanges is Defender.Ranges followed, with a blocklist
\* file, by the FileFetcher's loaded list and, without one, by List().
Snapshot(h) ==
    /\ Quiet
    /\ hs[h].pc = "added"
    /\ blocklistFile \/ DmuFree
    /\ hs' = [hs EXCEPT ![h].pc = "built",
                        ![h].list = StaticRanges \o
                            (IF blocklistFile THEN FetchIPRanges(fRanges).ranges ELSE List(ips))]
    /\ UNCHANGED <<apiVars, tpVars, tblVars, mwVars, ffVars, chkVars, dynVars>>
    /\ UNCHANGED <<blocklistFile, fRanges, fEvents, watch, installed, acked, gone, answer>>

\* UpdateRanges, start to end: the table is rebuilt and the cache replaced.
UpdateRanges(cidrRanges) ==
    /\ table' = buildTable(cidrRanges)
    /\ caches' = NewCache(caches, cacheRef)
    /\ installed' = cidrRanges
    /\ UNCHANGED <<apiVars, tpVars, tblVars, mwVars, ffVars, chkRest>>

\* Both handlers: UpdateRanges(allRanges), then the response, 201 for POST
\* and 200 for DELETE.
Rebuild(h) ==
    /\ Quiet
    /\ hs[h].pc = "built"
    /\ UpdateRanges(hs[h].list)
    /\ hs' = [hs EXCEPT ![h].pc = "done", ![h].rebuilt = TRUE, ![h].list = <<>>,
                        ![h].status = IF hs[h].op = "post" THEN 201 ELSE 200]
    /\ acked' = IF hs[h].op = "post" THEN acked \cup (Elems(hs[h].arg) \cap ips) ELSE acked
    /\ gone' = IF hs[h].op = "delete" THEN gone \cup (Elems(hs[h].arg) \ ips) ELSE gone
    /\ UNCHANGED dynVars
    /\ UNCHANGED <<blocklistFile, fRanges, fEvents, watch, answer>>

\* The API caller takes the response.
Reply(h) ==
    /\ hs[h].pc = "done"
    /\ hs' = [hs EXCEPT ![h] = IdleHandler]
    /\ UNCHANGED <<apiVars, tpVars, tblVars, mwVars, ffVars, chkVars, dynVars>>
    /\ UNCHANGED <<blocklistFile, fRanges, fEvents, watch, installed, acked, gone, answer>>

\* watchLoop: a Write event arrives and loadRanges reads the file as it is;
\* on its error the loop continues with the next event.
WatchLoad(io) ==
    /\ Quiet
    /\ watch.pc = "wait"
    /\ fEvents > 0
    /\ io # "watch"
    /\ fEvents' = fEvents - 1
    /\ LET r == loadRangesOf(disk, fRanges, io)
       IN  /\ fRanges' = r.ranges
           /\ watch' = IF r.err = "nil" THEN [pc |-> "notify", copy |-> r.ranges]
                       ELSE watch
    /\ UNCHANGED <<apiVars, tpVars, tblVars, mwVars, ffVars, chkVars, dynVars>>
    /\ UNCHANGED <<blocklistFile, hs, installed, acked, gone, answer>>

\* The Defender's onChange callback: the list it hands to UpdateRanges is
\* the static ranges, the file's list and the dynamic list.
onChange(newRanges, m) == StaticRanges \o newRanges \o List(m)

\* watchLoop: onChange is called with the copy of the loaded list.
WatchNotify ==
    /\ Quiet
    /\ watch.pc = "notify"
    /\ DmuFree
    /\ UpdateRanges(onChange(watch.copy, ips))
    /\ watch' = [pc |-> "wait", copy |-> <<>>]
    /\ UNCHANGED dynVars
    /\ UNCHANGED <<blocklistFile, fRanges, fEvents, hs, acked, gone, answer>>

NextAdmin ==
    \/ TakeAnswer
    \/ ServeRequest
    \/ \E h \in Handlers : Reply(h)
    \/ \E h \in Handlers : handleGetBlocklist(h)
    \/ \E h \in Handlers, body \in PostBodies, io \in SaveOutcomes :
            handleAddToBlocklist(h, body, io)
    \/ \E h \in Handlers, ip \in DeletePaths, io \in SaveOutcomes :
            handleBlocklistItem(h, ip, io)
    \/ \E h \in Handlers, ok \in BOOLEAN : Flush(h, ok)
    \/ \E h \in Handlers : Snapshot(h)
    \/ \E h \in Handlers : Rebuild(h)
    \/ \E io \in IOs : WatchLoad(io)
    \/ WatchNotify

SpecAdmin == InitAdmin /\ [][NextAdmin]_vars

AllReturned == \A h \in Handlers : hs[h].pc = "idle"

\* C4: without a blocklist file, once every admin request has returned, the
\* list most recently given to UpdateRanges holds every string of the
\* dynamic blocklist and no dynamic string that is no longer in it.
C4_InstalledListIsCurrent ==
    (~blocklistFile /\ AllReturned) =>
        Elems(installed) = Elems(StaticRanges) \cup ips

ClientOpen == ~WhitelistMatches(whitelist, client)

\* C5: once a POST of a parseable CIDR c has been answered 201 (and c has
\* not been deleted since), every ReqAllowed for an address that c covers
\* and the whitelist does not returns false.
C5_PostedIsBlocked ==
    (answer # "none" /\ ClientOpen
        /\ \E c \in acked : ParsePrefix(c).ok /\ CidrCovers(c, client))
            => answer = "blocked"

\* C6: once a DELETE of c has been answered 200 (and c has not been added
\* again), a request from an address that c covers, and that no static
\* range, no line the operator wrote and no remaining dynamic entry covers,
\* is allowed.
C6_DeletedIsAllowed ==
    (answer # "none"
        /\ \E c \in gone : CidrCovers(c, client)
        /\ ~ListCovers(StaticRanges, client)
        /\ ~ListCovers(ListOf(seed), client)
        /\ ~ListCovers(List(ips), client))
            => answer = "allowed"

\* C8: a GET lists every string that an answered POST added; and a POST,
\* overlapping no other mutation, of strings that an answered POST had
\* already added leaves the dynamic blocklist, the strings a GET lists and
\* the addresses the IPChecker refuses as they were.
C8_RoundTripAndIdempotence ==
    \A h \in Handlers :
        /\ (hs[h].pc = "done" /\ hs[h].op = "get") => acked \subseteq Listed(hs[h].resp)
        /\ (hs[h].pc = "done" /\ hs[h].status = 201 /\ hs[h].pre.again /\ hs[h].alone)
                => /\ ips = hs[h].pre.ips
                   /\ Listed(GetBlocklist(blocklistFile, fRanges, ips)) = hs[h].pre.get
                   /\ Blocked(table) = hs[h].pre.blocked

\* C9: when the write of the persistence file fails in a POST or DELETE,
\* the change is in the map, the caller gets the error, and UpdateRanges
\* has been called before the handler returns.
C9_FailedSaveStillRebuilds ==
    \A h \in Handlers :
        (hs[h].pc = "done" /\ hs[h].status = 500)
            => /\ hs[h].op = "post" => Elems(hs[h].arg) \subseteq ips
               /\ hs[h].op = "delete" => hs[h].arg[1] \notin ips
               /\ hs[h].rebuilt

\* C11: a reload that runs while saveToFile is rewriting the file loads the
\* whole file as it was before the save or the whole file as the save
\* leaves it.
C11_ReloadSeesWholeFile ==
    \A h \in Handlers :
        (hs[h].pc = "flush" /\ watch.pc = "notify")
            => watch.copy \in {loadRanges(hs[h].before), loadRanges(hs[h].content)}

\* C12: once EnableFilePersistence has been called on a file that holds
\* entries, and before any Add, List() holds every one of those entries.
C12_SeededFromFile ==
    (persistToFile /\ \A s \in DynStrings : calls[s].adds = 0)
        => \A l \in seed : InList(l, List(ips))

\* ------------------------------------------------------------- middleware
\* Defender.ServeHTTP. A RemoteAddr is a record of its shape: the host text,
\* whether the host is in square brackets, and whether ":port" follows.

RemoteAddr(host, brackets, port) == [host |-> host, brackets |-> brackets, port |-> port]

\* net.SplitHostPort accepting every text, for comparison.
SplitHostPortLax(hostport) == [ok |-> TRUE, host |-> hostport.host]

\* net.SplitHostPort: the port is missing, or the host holds colons outside
\* square brackets, and it is an error.
SplitHostPort(hostport) ==
    IF ~hostport.port THEN [ok |-> FALSE, host |-> Blank]
    ELSE IF hostport.host.kind = "bare" /\ hostport.host.fam = 6 /\ ~hostport.brackets
         THEN [ok |-> FALSE, host |-> Blank]
         ELSE [ok |-> TRUE, host |-> hostport.host]

\* net.ParseIP: the 16-byte form of an address literal of either family (an
\* IPv4 address as its IPv4-mapped form), nil for any other text.
ParseIP(s) ==
    IF s.kind = "bare" /\ s.fam \in {4, 6} /\ s.addr < Pow2(Width(s.fam))
    THEN NetIP(16, IF s.fam = 4 THEN MappedAddr(s.addr) ELSE s.addr)
    ELSE NilIP

\* utils.IPInRanges: the client address lies in the table of the ranges.
IPInRanges(clientIP, cidrRanges) ==
    LET ipAddr == ipToAddr(clientIP)
    IN  ipAddr.ok /\ Contains(buildTable(cidrRanges), Addr(ipAddr.fam, ipAddr.addr))

\* What Responder.Respond and next.ServeHTTP can return.
Results == {"nil", "err1", "err2"}

\* caddyhttp.Error(http.StatusForbidden, ...): neither callee is called.
Forbidden == [responder |-> 0, next |-> 0, callee |-> "none", ret |-> "403"]

Hosts ==
    { Bare(4, 1), Bare(4, 2), Bare(6, PlainV6), Bare(6, MappedAddr(2)), Bare(4, Pow2(V4Bits)),
      Junk(1), Blank }

RemoteAddrs == { RemoteAddr(h, b, p) : h \in Hosts, b \in BOOLEAN, p \in BOOLEAN }

InitMiddleware ==
    /\ Ranges \in RangeLists \cup {<<>>}
    /\ request = NoRequest
    /\ outcome = NoRequest
    /\ NoChecker
    /\ NoDynamic
    /\ NoAdmin
    /\ NoFetcher

\* ServeHTTP: respond and serve are what the responder and the next handler
\* return when called.
ServeHTTP(r, respond, serve) ==
    LET split == SplitHostPort(r)
        clientIP == ParseIP(split.host)
    IN  /\ request' = r
        /\ outcome' =
               IF ~split.ok THEN Forbidden
               ELSE IF clientIP = NilIP THEN Forbidden
               ELSE IF IPInRanges(clientIP, Ranges)
                    THEN [responder |-> 1, next |-> 0, callee |-> respond, ret |-> respond]
                    ELSE [responder |-> 0, next |-> 1, callee |-> serve, ret |-> serve]
        /\ UNCHANGED <<Ranges, chkVars, dynVars, admVars, ffVars, tblVars, apiVars, tpVars>>

NextMiddleware ==
    \E r \in RemoteAddrs, respond \in Results, serve \in Results :
        ServeHTTP(r, respond, serve)

SpecMiddleware == InitMiddleware /\ [][NextMiddleware]_vars

\* The RemoteAddr is "host:port" with an address literal as host, an IPv6
\* literal in square brackets.
WellFormed(r) ==
    /\ r.port
    /\ r.host.kind = "bare"
    /\ r.host.addr < Pow2(Width(r.host.fam))
    /\ r.host.fam = 6 => r.brackets

ClientOf(r) == Addr(r.host.fam, r.host.addr)

C14_OneCalleeByCoverage ==
    (request # NoRequest /\ WellFormed(request))
        => /\ outcome.responder + outcome.next = 1
           /\ outcome.responder = 1 <=> ListCovers(Ranges, ClientOf(request))
           /\ Ranges = <<>> => outcome.next = 1
           /\ outcome.ret = outcome.callee
           /\ outcome.ret \in Results

C14_Witness ==
    /\ request # NoRequest
    /\ WellFormed(request)
    /\ request.host.fam = 4
    /\ ListCovers(Ranges, ClientOf(request))
    /\ outcome.responder = 1
    /\ outcome.ret = "err1"

\* ------------------------------------------------------ FileFetcher alone
\* A FileFetcher built on a file that an editor rewrites, with a callback
\* that records what it is called with (TestFileFetcher_FileWatch).

\* loadRanges calls in one run, NewFileFetcher's included.
MaxLoads == 4

\* The contents an editor leaves in the watched file.
FileContents ==
    { <<>>,
      <<Comment(1), Blank>>,
      <<FileLine>>,
      <<Comment(1), Bare(4, Pow2(V4Bits) - 1), Junk(1), FileLine>> }

Load(io, err) == [io |-> io, err |-> err]

Watching == watch.pc \in {"wait", "notify"}

\* NewFileFetcher has returned a FileFetcher; its watch loop runs or has
\* returned.
Built == Watching \/ watch.pc = "exited"

\* Close calls in one run.
MaxCloses == 2

\* f.watcher.Close(): the watcher is closed, a closed one stays closed, and
\* either call returns nil.
watcherClose(cl) == Append(cl, "nil")

\* The watcher is open: file-system events reach its Events channel.
WatcherOpen == closes = <<>>

\* A watcher that goes on handing over events after Close, for comparison.
deliverAfterClose(cl, n) == n + 1

\* A write to the file is an event in the channel of an open watcher, and
\* nothing for a closed one.
deliver(cl, n) == IF cl = <<>> THEN n + 1 ELSE n

InitFetcher ==
    /\ disk \in {NoDisk} \cup { [exists |-> TRUE, lines |-> c] : c \in FileContents }
    /\ fRanges = <<>>
    /\ fEvents = 0
    /\ watch = [pc |-> "off", copy |-> <<>>]
    /\ fetched = NoRequest
    /\ changes = <<>>
    /\ loads = <<>>
    /\ closes = <<>>
    /\ found = <<>>
    /\ NoApi
    /\ ips = {}
    /\ persistToFile = FALSE
    /\ calls = <<>>
    /\ seed = {}
    /\ saves = "none"
    /\ dmu = Unlocked
    /\ gos = <<>>
    /\ blocklistFile = FALSE
    /\ hs = <<>>
    /\ installed = <<>>
    /\ acked = {}
    /\ gone = {}
    /\ answer = "none"
    /\ NoChecker
    /\ NoMiddleware

ffRest == <<chkVars, mwVars, tblVars, apiVars, tpVars, ips, persistToFile, calls, seed, saves, dmu, gos, blocklistFile,
            hs, installed, acked, gone, answer>>

\* NewFileFetcher: the initial load, then startWatching; an error of either
\* and no FileFetcher is returned.
NewFileFetcher(io) ==
    /\ watch.pc = "off"
    /\ LET r == loadRangesOf(disk, fRanges, io)
           err == IF r.err # "nil" THEN r.err ELSE IF io = "watch" THEN "watch" ELSE "nil"
       IN  /\ loads' = Append(loads, Load(io, err))
           /\ fRanges' = IF err = "nil" THEN r.ranges ELSE <<>>
           /\ watch' = [pc |-> IF err = "nil" THEN "wait" ELSE "failed", copy |-> <<>>]
    /\ UNCHANGED <<disk, fEvents, fetched, changes, ffRest, closes>>

\* An editor writes the file: a Write event for the watcher.
WriteFile(c) ==
    /\ Built
    /\ WatcherOpen => Len(loads) + fEvents < MaxLoads
    /\ disk' = [exists |-> TRUE, lines |-> c]
    /\ fEvents' = deliver(closes, fEvents)
    /\ UNCHANGED <<fRanges, watch, fetched, changes, loads, ffRest, closes>>

\* watchLoop: an event is received and loadRanges runs; on its error the
\* loop continues with the next event.
FetcherLoad(io) ==
    /\ watch.pc = "wait"
    /\ fEvents > 0
    /\ io # "watch"
    /\ fEvents' = fEvents - 1
    /\ LET r == loadRangesOf(disk, fRanges, io)
       IN  /\ loads' = Append(loads, Load(io, r.err))
           /\ fRanges' = r.ranges
           /\ watch' = IF r.err = "nil"
                       THEN [pc |-> "notify", copy |-> rangesCopy(r.ranges).list]
                       ELSE watch
    /\ UNCHANGED <<disk, fetched, changes, ffRest, closes>>

\* watchLoop: the callback is called with the copy of the loaded list.
FetcherNotify ==
    /\ watch.pc = "notify"
    /\ changes' = Append(changes, watch.copy)
    /\ watch' = [pc |-> "wait", copy |-> <<>>]
    /\ UNCHANGED <<disk, fRanges, fEvents, fetched, loads, ffRest, closes>>

\* A caller's FetchIPRanges; n tells one call from the next.
FetchCall ==
    /\ Built
    /\ LET r == FetchIPRanges(fRanges)
           n == IF fetched = NoRequest THEN 0 ELSE 1 - fetched.n
       IN  fetched' = [n |-> n, nil |-> r.nil, ranges |-> r.ranges, err |-> r.err,
                       copy |-> r.copy]
    /\ UNCHANGED <<disk, fRanges, fEvents, watch, changes, loads, ffRest, closes>>

NextFetcher ==
    \/ \E io \in IOs : NewFileFetcher(io)
    \/ \E c \in FileContents : WriteFile(c)
    \/ \E io \in IOs : FetcherLoad(io)
    \/ FetcherNotify
    \/ FetchCall

SpecFetcher == InitFetcher /\ [][NextFetcher]_vars

\* FileFetcher.Close
Close ==
    /\ Built
    /\ Len(closes) < MaxCloses
    /\ closes' = watcherClose(closes)
    /\ UNCHANGED <<disk, fRanges, fEvents, watch, fetched, changes, loads, ffRest>>

\* watchLoop: the Events channel is closed and the loop returns; events the
\* watcher had not handed over are gone.
WatchExit ==
    /\ watch.pc = "wait"
    /\ ~WatcherOpen
    /\ watch' = [pc |-> "exited", copy |-> <<>>]
    /\ fEvents' = 0
    /\ UNCHANGED <<disk, fRanges, fetched, changes, loads, ffRest, closes>>

\* The FileFetcher with its Close.
NextFetcherClose ==
    \/ \E io \in IOs : NewFileFetcher(io)
    \/ \E c \in FileContents : WriteFile(c)
    \/ \E io \in IOs : FetcherLoad(io)
    \/ FetcherNotify
    \/ FetchCall
    \/ Close
    \/ WatchExit

SpecFetcherClose == InitFetcher /\ [][NextFetcherClose]_vars

\* The watch loop is scheduled as in SpecFetcherFair, its return included.
SpecFetcherCloseFair ==
    /\ SpecFetcherClose
    /\ WF_vars(\E io \in IOs : FetcherLoad(io))
    /\ WF_vars(FetcherNotify)
    /\ WF_vars(WatchExit)

\* The file exists and holds no usable entry, and nothing has been written
\* since NewFileFetcher read it without an I/O fault.
BuiltOnEmptyFile ==
    /\ Len(loads) = 1
    /\ loads[1].io = "ok"
    /\ fEvents = 0
    /\ disk.exists
    /\ loadRanges(disk.lines) = <<>>

\* C15: NewFileFetcher on a file that exists and holds no usable entry
\* succeeds and starts watching, and every FetchIPRanges call made while
\* the loaded list is empty returns nil and an error.
C15_EmptyFileBuildsAndFetchFails ==
    [][ /\ BuiltOnEmptyFile' => (loads'[1].err = "nil" /\ watch'.pc = "wait")
        /\ (fetched' # fetched /\ fRanges = <<>>)
               => (fetched'.nil /\ fetched'.err /\ fetched'.ranges = <<>>) ]_vars

C15_Witness ==
    /\ BuiltOnEmptyFile
    /\ disk.lines = <<Comment(1), Blank>>
    /\ watch.pc = "wait"
    /\ fetched # NoRequest
    /\ fetched.nil
    /\ fetched.err

\* The watch loop is a goroutine of its own, blocked in select: once an
\* event is in the channel or onChange is due, the scheduler runs it.
SpecFetcherFair ==
    /\ SpecFetcher
    /\ WF_vars(\E io \in IOs : FetcherLoad(io))
    /\ WF_vars(FetcherNotify)

\* Every event has been handled, and if the last re-read worked the list
\* is the valid lines of the file as it is now.
Settled ==
    /\ fEvents = 0
    /\ watch.pc = "wait"
    /\ loads[Len(loads)].err = "nil"
           => FetchIPRanges(fRanges).ranges = loadRanges(disk.lines)

\* C16: with the watch loop scheduled fairly, a write event whose re-read
\* works leaves the list equal to the valid lines of the file's new
\* contents, and once the last event of a series of writes has been
\* handled the list is that of the last contents: no update is lost.
C16_NoUpdateLost ==
    /\ [][ (Len(loads) >= 1 /\ Len(loads') > Len(loads) /\ loads'[Len(loads')].err = "nil")
               => FetchIPRanges(fRanges').ranges = loadRanges(disk'.lines) ]_vars
    /\ [](Watching /\ fEvents > 0 => <>(fEvents = 0))
    /\ <>[](Watching => Settled)

C16_Witness ==
    /\ Len(loads) = 3
    /\ \A i \in 1..3 : loads[i].err = "nil"
    /\ fEvents = 0
    /\ watch.pc = "wait"
    /\ Len(changes) = 2
    /\ changes[1] # changes[2]
    /\ changes[2] = loadRanges(disk.lines)
    /\ fetched # NoRequest
    /\ ~fetched.err
    /\ fetched.ranges = changes[2]

\* This step is a reload by the watch loop.
Reloads == Len(loads) >= 1 /\ Len(loads') = Len(loads) + 1

\* C17: a reload that fails to open or read the file leaves the list as it
\* was, onChange is not called for it, and the loop waits for the next
\* event, whose reload, when it works, replaces the list.
C17_FailedReloadKeepsList ==
    [][ Reloads =>
            IF loads'[Len(loads')].err # "nil"
            THEN fRanges' = fRanges /\ changes' = changes /\ watch'.pc = "wait"
            ELSE fRanges' = loadRanges(disk.lines) /\ watch'.pc = "notify" ]_vars

C17_Witness ==
    /\ Len(loads) = 3
    /\ loads[1].err = "nil"
    /\ loads[2].err \in {"open", "read"}
    /\ loads[3].err = "nil"
    /\ watch.pc = "wait"
    /\ changes = <<loadRanges(disk.lines)>>
    /\ fRanges = loadRanges(disk.lines)
    /\ fRanges # <<>>

\* C18: a reload that reads a file with no valid entry keeps the list it
\* had, and onChange is never called with an empty list.
C18_EmptyReloadKeepsList ==
    [][ /\ (Reloads /\ loads'[Len(loads')].err = "nil" /\ loadRanges(disk.lines) = <<>>)
               => fRanges' = fRanges
        /\ \A i \in 1..Len(changes') : changes'[i] # <<>> ]_vars

\* The list the admin handlers give to UpdateRanges when a blocklist file
\* is configured: the static ranges and what FetchIPRanges returns.
allRanges == StaticRanges \o FetchIPRanges(fRanges).ranges

\* C19: a line of the file that is a bare address is blocked as that one
\* address: in the table built from the merged list, ReqAllowed denies a
\* request from it.
C19_BareLineIsBlocked ==
    \A i \in 1..Len(fRanges) :
        fRanges[i].kind = "bare"
            => LET ipAddr == ipToAddr(NetIP(IF fRanges[i].fam = 4 THEN 4 ELSE 16,
                                            fRanges[i].addr))
               IN  Contains(buildTable(allRanges), Addr(ipAddr.fam, ipAddr.addr))

\* ------------------------------------------------- one prefix, one address
\* buildTable on a single prefix, and table.Contains on the two forms of an
\* IPv4 address: its 4-byte form and its IPv4-mapped 16-byte form.

\* Every "<addr>/<bits>" string of either family, lengths one past the
\* family's width included.
PrefixStrings ==
    { Cidr(4, a, b) : a \in 0..(Pow2(V4Bits) - 1), b \in 0..(V4Bits + 1) }
        \cup { Cidr(6, a, b) : a \in {1, MappedAddr(1), PlainV6}, b \in {0, MappedPrefixLen, V6Bits} }

V4Addrs == 0..(Pow2(V4Bits) - 1)

Forms == {"v4", "mapped"}

\* The net.IP of the client in the given form.
FormOf(form, a) == IF form = "v4" THEN NetIP(4, a) ELSE NetIP(16, MappedAddr(a))

InitTable ==
    \E p \in PrefixStrings, a \in V4Addrs :
        /\ history = <<<<p>>>>
        /\ table = buildTable(<<p>>)
        /\ client = Addr(4, a)
        /\ found = <<>>
        /\ tableGen = 0
        /\ cacheRef = 0
        /\ caches = [g \in Gens |-> EmptyCache]
        /\ mu = "free"
        /\ whitelist = {}
        /\ lk = <<>>
        /\ up = <<>>
        /\ refresh = {}
        /\ completed = 0
        /\ fetched = NoRequest
        /\ changes = <<>>
        /\ loads = <<>>
        /\ closes = <<>>
        /\ NoApi
        /\ NoDynamic
        /\ NoAdmin
        /\ NoMiddleware

\* ipToAddr of the client's form, then table.Contains.
Lookup(form) ==
    /\ form \notin DOMAIN found
    /\ LET ipAddr == ipToAddr(FormOf(form, client.addr))
           hit == ipAddr.ok /\ Contains(table, Addr(ipAddr.fam, ipAddr.addr))
       IN  found' = [f \in DOMAIN found \cup {form} |-> IF f = form THEN hit ELSE found[f]]
    /\ UNCHANGED <<chkVars, dynVars, admVars, mwVars, ffVars, apiVars, tpVars>>

NextTable == \E form \in Forms : Lookup(form)

SpecTable == InitTable /\ [][NextTable]_vars

\* C20: in the table built from one IPv4 prefix, the lookup of an IPv4
\* address in its 4-byte form and in its IPv4-mapped form give the same
\* answer, true exactly when the prefix covers the address; the mapped twin
\* stored has the IPv4 length plus the mapped block's length (96 + n), which
\* never exceeds the IPv6 width (128).
C20_MappedLookupAgrees ==
    LET p == ParsePrefix(history[1][1])
    IN  (p.ok /\ p.fam = 4)
            => /\ DOMAIN found = Forms
                   => /\ found["v4"] = found["mapped"]
                      /\ found["v4"] = InRange(p, client)
               /\ \E q \in table :
                      /\ q.fam = 6
                      /\ q.bits = MappedPrefixLen + p.bits
                      /\ q.bits <= V6Bits
               /\ \A q \in table : q.fam = 6 => q.bits = MappedPrefixLen + p.bits

C20_Witness ==
    /\ history = <<<<Cidr(4, 3, 1)>>>>
    /\ client = Addr(4, 2)
    /\ DOMAIN found = Forms
    /\ found["v4"]
    /\ found["mapped"]

\* ------------------------------------------------- admin API, one at a time
\* The DefenderAdmin registry and its three routes, each request served from
\* start to end before the next, on a Defender without a blocklist file.

\* net.ParseCIDR: an address, a slash, a length within the family's width.
ParseCIDR(s) ==
    /\ s.kind = "cidr"
    /\ s.fam \in {4, 6}
    /\ s.addr < Pow2(Width(s.fam))
    /\ s.bits <= Width(s.fam)

\* Defender.Validate: nil, or the error for a missing responder or for the
\* first range that is neither a predefined key nor a CIDR.
Validate(ranges, responder) ==
    IF ~responder THEN "error"
    ELSE IF \E i \in 1..Len(ranges) : ranges[i] \notin DOMAIN IPRanges /\ ~ParseCIDR(ranges[i])
         THEN "error"
         ELSE "nil"

\* The Ranges of a configuration.
ConfigRanges ==
    { <<>>,
      <<Cidr(4, 0, 1)>>,
      <<Bundle(1)>>,
      <<Bundle(2)>>,
      <<Cidr(4, 0, 1), Junk(1)>>,
      <<Bare(4, 1), Bundle(1)>> }

\* The Defender instances that register: D1 has a dynamic blocklist, D2 has
\* none (dynamicBlocklist is nil).
D1 == "d1"

D2 == "d2"

DefenderIds == {D1, D2}

HasDynamic(id) == id = D1

Methods == {"GET", "POST", "DELETE", "PUT"}

\* A POST body: text that is no JSON, or the "ips" array.
NotJSON == [json |-> FALSE, ips |-> <<>>]

Body(list) == [json |-> TRUE, ips |-> list]

ApiBodies ==
    { NotJSON, Body(<<>>), Body(<<DynA>>), Body(<<DynB>>), Body(<<Junk(1)>>),
      Body(<<Bare(4, 1)>>), Body(<<DynB, Bare(4, 1)>>), Body(<<Bundle(2)>>) }

\* What follows "/defender/blocklist/" in the path.
ApiPaths == {DynA, DynB, Junk(1), Blank}

NoArg == [json |-> TRUE, ips |-> <<>>]

InitApi ==
    /\ Ranges \in ConfigRanges
    /\ Responder \in BOOLEAN
    /\ phase = "configured"
    /\ defenders = {}
    /\ apiResp = NoRequest
    /\ tarpit = NoRequest
    /\ fr = NoRequest
    /\ table = {}
    /\ installed = <<>>
    /\ ips = {}
    /\ persistToFile = FALSE
    /\ disk = NoDisk
    /\ calls = <<>>
    /\ seed = {}
    /\ saves = "none"
    /\ dmu = Unlocked
    /\ gos = <<>>
    /\ blocklistFile = FALSE
    /\ fRanges = <<>>
    /\ fEvents = 0
    /\ watch = [pc |-> "off", copy |-> <<>>]
    /\ hs = <<>>
    /\ acked = {}
    /\ gone = {}
    /\ answer = "none"
    /\ tableGen = 0
    /\ cacheRef = 0
    /\ caches = [g \in Gens |-> EmptyCache]
    /\ mu = "free"
    /\ whitelist = {}
    /\ client = Addr(0, 0)
    /\ lk = <<>>
    /\ up = <<>>
    /\ refresh = {}
    /\ history = <<>>
    /\ completed = 0
    /\ request = NoRequest
    /\ outcome = NoRequest
    /\ fetched = NoRequest
    /\ changes = <<>>
    /\ loads = <<>>
    /\ closes = <<>>
    /\ found = <<>>

apiRest == <<tableGen, cacheRef, caches, mu, whitelist, client, lk, up, refresh, history,
             completed, persistToFile, disk, calls, seed, saves, dmu, gos, blocklistFile, fRanges,
             fEvents, watch, hs, acked, gone, answer, request, outcome, ffVars, tblVars,
             tpVars, Ranges, Responder>>

\* The configuration is validated; with an error the Defender never runs,
\* without one its IPChecker is built from Ranges.
ValidateConfig ==
    /\ phase = "configured"
    /\ IF Validate(Ranges, Responder) = "nil"
       THEN /\ phase' = "running"
            /\ table' = buildTable(Ranges)
            /\ installed' = Ranges
       ELSE /\ phase' = "rejected"
            /\ UNCHANGED <<table, installed>>
    /\ UNCHANGED <<defenders, apiResp, ips, apiRest>>

RegisterDefender(id) ==
    /\ phase = "running"
    /\ defenders' = defenders \cup {id}
    /\ UNCHANGED <<phase, apiResp, table, installed, ips, apiRest>>

UnregisterDefender(id) ==
    /\ phase = "running"
    /\ defenders' = defenders \ {id}
    /\ UNCHANGED <<phase, apiResp, table, installed, ips, apiRest>>

\* getDefender handing out a Defender that is no longer registered, for
\* comparison.
getDefenderAny == DefenderIds

\* getDefender: nil for an empty registry, else any registered Defender.
getDefender == IF defenders = {} THEN {"nil"} ELSE defenders

Chosen == DefenderIds \cup {"nil"}

\* The response to a request: route, method and argument as received, the
\* Defender getDefender returned ("nil" for none), the status, and whether
\* the handler called UpdateRanges; registry is the Defenders registered when
\* the request was served.
ApiResponse(route, method, arg, chosen, status, rebuilt) ==
    [route |-> route, method |-> method, arg |-> arg, chosen |-> chosen,
     status |-> status, rebuilt |-> rebuilt, registry |-> defenders]

\* An error response that also empties the dynamic blocklist, for comparison.
ApiErrorDropping(route, method, arg, chosen, status) ==
    /\ apiResp' = ApiResponse(route, method, arg, chosen, status, FALSE)
    /\ ips' = {}
    /\ UNCHANGED <<table, installed>>

\* A handler that returns an error changes nothing.
ApiError(route, method, arg, chosen, status) ==
    /\ apiResp' = ApiResponse(route, method, arg, chosen, status, FALSE)
    /\ UNCHANGED <<table, installed, ips>>

\* handleBlocklist with handleGetBlocklist and handleAddToBlocklist; chosen is
\* the Defender getDefender's map iteration comes to first.
handleBlocklist(method, body, chosen) ==
    /\ phase = "running"
    /\ chosen \in getDefender
    /\ IF chosen = "nil" THEN ApiError("blocklist", method, body, chosen, 503)
       ELSE IF method = "GET"
       THEN IF ~HasDynamic(chosen) THEN ApiError("blocklist", method, body, chosen, 503)
            ELSE /\ apiResp' = ApiResponse("blocklist", method, body, chosen, 200, FALSE)
                 /\ UNCHANGED <<table, installed, ips>>
       ELSE IF method = "POST"
       THEN IF ~HasDynamic(chosen) THEN ApiError("blocklist", method, body, chosen, 503)
            ELSE IF ~body.json THEN ApiError("blocklist", method, body, chosen, 400)
            ELSE IF Len(body.ips) = 0 THEN ApiError("blocklist", method, body, chosen, 400)
            ELSE IF \E i \in 1..Len(body.ips) : ~HasSlash(body.ips[i])
                 THEN ApiError("blocklist", method, body, chosen, 400)
                 ELSE /\ ips' = AddIps(ips, body.ips)
                      /\ table' = buildTable(Ranges \o List(AddIps(ips, body.ips)))
                      /\ installed' = Ranges \o List(AddIps(ips, body.ips))
                      /\ apiResp' = ApiResponse("blocklist", method, body, chosen, 201, TRUE)
       ELSE ApiError("blocklist", method, body, chosen, 405)
    /\ UNCHANGED <<defenders, phase, apiRest>>

\* handleBlocklistItem
handleItem(method, ip, chosen) ==
    /\ phase = "running"
    /\ chosen \in getDefender
    /\ IF chosen = "nil" THEN ApiError("item", method, Body(<<ip>>), chosen, 503)
       ELSE IF method # "DELETE" THEN ApiError("item", method, Body(<<ip>>), chosen, 405)
       ELSE IF ~HasDynamic(chosen) THEN ApiError("item", method, Body(<<ip>>), chosen, 503)
       ELSE IF ip = Blank THEN ApiError("item", method, Body(<<ip>>), chosen, 400)
       ELSE IF ip \notin ips THEN ApiError("item", method, Body(<<ip>>), chosen, 404)
       ELSE /\ ips' = RemoveIps(ips, ip)
            /\ table' = buildTable(Ranges \o List(RemoveIps(ips, ip)))
            /\ installed' = Ranges \o List(RemoveIps(ips, ip))
            /\ apiResp' = ApiResponse("item", method, Body(<<ip>>), chosen, 200, TRUE)
    /\ UNCHANGED <<defenders, phase, apiRest>>

\* handleStats
handleStats(method, chosen) ==
    /\ phase = "running"
    /\ chosen \in getDefender
    /\ IF chosen = "nil" THEN ApiError("stats", method, NoArg, chosen, 503)
       ELSE IF method # "GET" THEN ApiError("stats", method, NoArg, chosen, 405)
       ELSE /\ apiResp' = ApiResponse("stats", method, NoArg, chosen, 200, FALSE)
            /\ UNCHANGED <<table, installed, ips>>
    /\ UNCHANGED <<defenders, phase, apiRest>>

NextApi ==
    \/ ValidateConfig
    \/ \E id \in DefenderIds : RegisterDefender(id)
    \/ \E id \in DefenderIds : UnregisterDefender(id)
    \/ \E method \in Methods, body \in ApiBodies, d \in Chosen :
           handleBlocklist(method, body, d)
    \/ \E method \in Methods, ip \in ApiPaths, d \in Chosen :
           handleItem(method, ip, d)
    \/ \E method \in Methods, d \in Chosen : handleStats(method, d)

SpecApi == InitApi /\ [][NextApi]_vars

\* buildTable keeps the entry: a predefined key or a string that parses.
Usable(s) == s \in DOMAIN IPRanges \/ ParsePrefix(s).ok

\* C21: an entry that is neither a predefined key nor a CIDR is refused with
\* an error on both ways in: a configuration that holds one does not pass
\* Validate, and a POST that holds one is not answered 201.
C21_UnusableEntryIsRefused ==
    /\ phase = "running" => \A i \in 1..Len(Ranges) : Usable(Ranges[i])
    /\ (apiResp # NoRequest /\ apiResp.method = "POST" /\ apiResp.status = 201)
           => \A i \in 1..Len(apiResp.arg.ips) : Usable(apiResp.arg.ips[i])

ErrorCodes == {400, 404, 405, 503}

\* This step serves an admin request.
Serves == apiResp' # NoRequest /\ apiResp' # apiResp

\* C22: an admin request answered 400, 404, 405 or 503 changes neither the
\* dynamic blocklist, nor the file, nor the table, and calls no
\* UpdateRanges; a POST in which some entry has no '/' is answered 400 as a
\* whole, and a DELETE of a string that is not in the list is answered 404.
C22_ErrorsChangeNothing ==
    [][ Serves =>
          /\ apiResp'.status \in ErrorCodes
                 => /\ ips' = ips
                    /\ disk' = disk
                    /\ table' = table
                    /\ installed' = installed
                    /\ ~apiResp'.rebuilt
          /\ ( /\ apiResp'.method = "POST"
               /\ apiResp'.route = "blocklist"
               /\ apiResp'.chosen = D1
               /\ \E i \in 1..Len(apiResp'.arg.ips) : ~HasSlash(apiResp'.arg.ips[i]) )
                 => apiResp'.status = 400
          /\ ( /\ apiResp'.method = "DELETE"
               /\ apiResp'.route = "item"
               /\ apiResp'.chosen = D1
               /\ apiResp'.arg.ips[1] # Blank
               /\ apiResp'.arg.ips[1] \notin ips )
                 => apiResp'.status = 404 ]_vars

C22_Witness ==
    /\ apiResp # NoRequest
    /\ apiResp.arg = Body(<<DynB, Bare(4, 1)>>)
    /\ apiResp.status = 400
    /\ ips = {DynA}
    /\ installed = Ranges \o <<DynA>>

\* The request is one its route serves.
Supported(r) ==
    \/ r.route = "blocklist" /\ r.method \in {"GET", "POST"}
    \/ r.route = "item" /\ r.method = "DELETE"
    \/ r.route = "stats" /\ r.method = "GET"

\* The request is one whose handler uses the dynamic blocklist.
NeedsDynamic(r) == Supported(r) /\ r.route # "stats"

\* C23 as stated: a request is answered 503 exactly when the registry is
\* empty at the call or the Defender chosen has no dynamic blocklist.
C23_503IffNoDefenderOrNoDynamic ==
    [][ Serves =>
          (apiResp'.status = 503
               <=> (defenders = {} \/ ~HasDynamic(apiResp'.chosen))) ]_vars

\* C23, amended: a request is answered 503 exactly when the registry is
\* empty at the call, or the Defender chosen has no dynamic blocklist and
\* the request is a GET or POST of the blocklist or a DELETE of an item; the
\* registry is checked before the method, so a method the route does not
\* serve is answered 503 on an empty registry and 405 otherwise.
C23_503WhenRegistryEmpty ==
    [][ Serves =>
          /\ apiResp'.status = 503
                 <=> \/ defenders = {}
                     \/ ~HasDynamic(apiResp'.chosen) /\ NeedsDynamic(apiResp')
          /\ defenders # {} => apiResp'.chosen \in defenders
          /\ (defenders # {} /\ ~Supported(apiResp')) => apiResp'.status = 405 ]_vars

C23_Witness ==
    /\ defenders = {}
    /\ ips # {}
    /\ apiResp # NoRequest
    /\ apiResp.method = "PUT"
    /\ apiResp.chosen = "nil"
    /\ apiResp.status = 503

\* ------------------------------------------------------------------
\* The tarpit responder: one ServeHTTP call, its ticker, its timeout and
\* the client's disconnect.
\* ------------------------------------------------------------------

\* The sniff buffer of ServeHTTP, in bytes.
SniffLen == 512

\* The ticker's period, in milliseconds.
TickMs == 100

\* Validate's floor: bytes_per_second has to exceed it.
MinBytesPerSecond == 10

\* Times are followed up to here, in milliseconds.
MaxNow == 600

Min(a, b) == IF a < b THEN a ELSE b

\* Responder.Validate: nil for a positive timeout and a rate above the floor.
ValidateTarpit(cfg) ==
    IF cfg.Timeout <= 0 THEN "error"
    ELSE IF cfg.BytesPerSecond <= MinBytesPerSecond THEN "error"
    ELSE "nil"

\* Configurations offered to ConfigureContentReader; a Responder exists only
\* for those Validate accepts.
TarpitConfigs ==
    { [BytesPerSecond |-> b, Timeout |-> t, ResponseCode |-> 200] : b \in {10, 24, 100}, t \in {0, 250, 500} }

\* Lengths of the content source, in bytes: empty, shorter than the sniff
\* buffer, a little longer, and 10 kB.
ContentLens == {0, 300, 530, 10240}

\* A response writer is the chain of writers reached by Unwrap, outermost
\* first; each is a flusher or not.
Writers ==
    { <<TRUE>>, <<FALSE>>, <<FALSE, TRUE>>, <<FALSE, FALSE>>, <<FALSE, FALSE, TRUE>> }

\* getFlushableWriter: the first writer of the chain that is a flusher, 0
\* (nil) when the chain ends without one.
RECURSIVE firstFlusher(_, _)
firstFlusher(w, i) ==
    IF i > Len(w) THEN 0
    ELSE IF w[i] THEN i
    ELSE firstFlusher(w, i + 1)

getFlushableWriter(w) == firstFlusher(w, 1)

\* The flush closure warning on every call without a flusher, for comparison.
flushWarnEach(t) ==
    IF t.flusher = 0
    THEN [t EXCEPT !.warnings = @ + 1, !.warnedNoFlusher = TRUE]
    ELSE [t EXCEPT !.flushes = @ + 1]

\* The flush closure: without a flusher it warns the first time only.
flush(t) ==
    IF t.flusher = 0
    THEN IF ~t.warnedNoFlusher
         THEN [t EXCEPT !.warnings = @ + 1, !.warnedNoFlusher = TRUE]
         ELSE t
    ELSE [t EXCEPT !.flushes = @ + 1]

\* A chunk of ten times the configured share, for comparison.
chunkLenPerSecond(cfg) == cfg.BytesPerSecond

\* len(chunk): a tenth of the rate, rounded down.
chunkLen(cfg) == cfg.BytesPerSecond \div 10

\* reader.Read(buf) on a file: the bytes left, up to len(buf), and EOF with
\* no byte once none is left.
ReadLen(t, buflen) == Min(buflen, t.content - t.pos)

\* w.Write(chunk[:n]) followed by flush(): the bytes land on the original
\* writer, the flush on the flusher found.
WriteAndFlush(t, n) ==
    flush([t EXCEPT !.writes = Append(@, <<t.pos, n>>)])

\* The call returns.
ServeReturns(t, result, why) == [t EXCEPT !.pc = "done", !.result = result, !.why = why]

\* A timer that never fires, for comparison.
timeAfterNever(now, d) == FALSE

\* time.After(d): the channel is ready from d on.
timeAfter(now, d) == now >= d

\* The next instant at which the ticker or the timeout fires.
NextEvent(now, d) ==
    LET t == ((now \div TickMs) + 1) * TickMs
    IN IF now < d /\ d < t THEN d ELSE t

IoResults == {"nil", "err"}

InitTarpit ==
    /\ NoChecker
    /\ NoDynamic
    /\ NoAdmin
    /\ NoMiddleware
    /\ fetched = NoRequest
    /\ changes = <<>>
    /\ loads = <<>>
    /\ closes = <<>>
    /\ found = <<>>
    /\ defenders = {}
    /\ phase = "running"
    /\ Responder = TRUE
    /\ apiResp = NoRequest
    /\ fr = NoRequest
    /\ \E cfg \in TarpitConfigs, c \in ContentLens, w \in Writers :
           /\ ValidateTarpit(cfg) = "nil"
           /\ tarpit = [ served |-> TRUE, cfg |-> cfg, content |-> c, w |-> w,
                         pc |-> "start", flusher |-> 0,
                         warnedNoFlusher |-> FALSE, warnings |-> 0, flushes |-> 0,
                         pos |-> 0, reads |-> <<>>, writes |-> <<>>, status |-> 0,
                         headers |-> "none", headerWrites |-> 0,
                         now |-> 0, tick |-> FALSE, timeout |-> FALSE,
                         cancelled |-> FALSE, ticks |-> 0, late |-> FALSE,
                         result |-> "none", why |-> "none" ]

tpRest == <<chkVars, dynVars, admVars, mwVars, ffVars, tblVars, apiVars, fr>>

\* http.Error that sends the configured headers with its 500, for comparison.
httpErrorWithHeaders(t) ==
    [t EXCEPT !.status = 500, !.headers = "configured", !.headerWrites = @ + 1]

\* http.Error(w, msg, 500): its own plain-text headers and the 500; the
\* configured headers have not been set.
httpError(t) ==
    [t EXCEPT !.status = 500, !.headers = "error", !.headerWrites = @ + 1]

\* The configured headers, the detected Content-Type, and
\* w.WriteHeader(r.Config.ResponseCode).
WriteHeader(t) ==
    [t EXCEPT !.status = t.cfg.ResponseCode, !.headers = "configured",
              !.headerWrites = @ + 1]

\* ServeHTTP up to its loop: find the flusher, open the content, read the
\* sniff buffer, send the header, write and flush the first chunk, start the
\* ticker and the timeout.
TarpitServe(openErr, readErr, writeErr) ==
    /\ tarpit # NoRequest
    /\ tarpit.pc = "start"
    /\ LET t0 == [tarpit EXCEPT !.flusher = getFlushableWriter(tarpit.w)]
           n == ReadLen(t0, SniffLen)
           t1 == WriteHeader([t0 EXCEPT !.reads = Append(@, <<t0.pos, n>>)])
           t2 == [WriteAndFlush(t1, n) EXCEPT !.pos = @ + n]
       IN tarpit' =
              IF openErr = "err" THEN ServeReturns(httpError(t0), "nil", "open")
              ELSE IF readErr = "err" THEN ServeReturns(httpError(t0), "nil", "sniff")
              ELSE IF n > 0 /\ writeErr = "err" THEN ServeReturns(t1, "err", "write")
              ELSE [(IF n > 0 THEN t2 ELSE t1) EXCEPT !.pc = "loop"]
    /\ UNCHANGED tpRest

\* A tick that does not look at the request context, for comparison.
ctxErrUnseen(t) == FALSE

\* req.Context().Err() # nil
ctxErr(t) == t.cancelled

\* The client goes away: the request context is cancelled.
Cancel ==
    /\ tarpit # NoRequest
    /\ tarpit.pc # "done"
    /\ ~tarpit.cancelled
    /\ tarpit' = [tarpit EXCEPT !.cancelled = TRUE]
    /\ UNCHANGED tpRest

\* Time passes to the next firing: the ticker's channel holds one tick, the
\* timeout's channel stays ready once it fired.
Clock ==
    /\ tarpit # NoRequest
    /\ tarpit.pc = "loop"
    /\ tarpit.now < MaxNow
    /\ LET now == NextEvent(tarpit.now, tarpit.cfg.Timeout)
       IN tarpit' = [tarpit EXCEPT
                         !.now = now,
                         !.tick = @ \/ now % TickMs = 0,
                         !.timeout = @ \/ timeAfter(now, tarpit.cfg.Timeout)]
    /\ UNCHANGED tpRest

\* case <-ticker.C
TarpitTick(readErr, writeErr) ==
    /\ tarpit # NoRequest
    /\ tarpit.pc = "loop"
    /\ tarpit.tick
    /\ LET t0 == [tarpit EXCEPT !.tick = FALSE, !.ticks = @ + 1,
                                !.late = @ \/ tarpit.cancelled]
           n == ReadLen(t0, chunkLen(t0.cfg))
           t1 == [t0 EXCEPT !.reads = Append(@, <<t0.pos, n>>)]
           t2 == [WriteAndFlush(t1, n) EXCEPT !.pos = @ + n]
       IN tarpit' =
              IF ctxErr(t0) THEN ServeReturns(t0, "nil", "cancelled")
              ELSE IF readErr = "err" THEN ServeReturns(t0, "err", "read")
              ELSE IF t0.pos = t0.content THEN ServeReturns(t1, "nil", "eof")
              ELSE IF n > 0 /\ writeErr = "err" THEN ServeReturns(t1, "err", "write")
              ELSE IF n > 0 THEN t2
              ELSE t1
    /\ UNCHANGED tpRest

\* case <-timeout
TarpitTimeout ==
    /\ tarpit # NoRequest
    /\ tarpit.pc = "loop"
    /\ tarpit.timeout
    /\ tarpit' = ServeReturns(tarpit, "nil", "timeout")
    /\ UNCHANGED tpRest

NextTarpit ==
    \/ \E o \in IoResults, r \in IoResults, w \in IoResults : TarpitServe(o, r, w)
    \/ Cancel
    \/ Clock
    \/ \E r \in IoResults, w \in IoResults : TarpitTick(r, w)
    \/ TarpitTimeout

SpecTarpit == InitTarpit /\ [][NextTarpit]_vars

\* The goroutine runs, time passes, and select takes a ready case.
SpecTarpitFair ==
    /\ SpecTarpit
    /\ WF_vars(\E o \in IoResults, r \in IoResults, w \in IoResults : TarpitServe(o, r, w))
    /\ WF_vars(Clock)
    /\ WF_vars(\E r \in IoResults, w \in IoResults : TarpitTick(r, w))
    /\ WF_vars(TarpitTimeout)

\* The step handles a tick.
TickStep == tarpit.pc = "loop" /\ tarpit'.ticks = tarpit.ticks + 1

\* C24: under fair choice between the ticker and the timeout every tarpit
\* ServeHTTP call returns; it returns nil at the tick that finds the
\* content at EOF, at the tick that finds the request context cancelled and
\* when the timeout fires, and after it returned it reads and writes nothing.
C24_ServeReturns ==
    /\ <>[](tarpit.pc = "done")
    /\ [][ /\ (TickStep /\ tarpit.cancelled)
               => tarpit'.pc = "done" /\ tarpit'.result = "nil"
           /\ (TickStep /\ ~tarpit.cancelled /\ tarpit.pos = tarpit.content
                        /\ tarpit'.why # "read")
               => tarpit'.pc = "done" /\ tarpit'.result = "nil"
           /\ (tarpit.pc = "loop" /\ tarpit'.why = "timeout")
               => /\ tarpit'.pc = "done"
                  /\ tarpit'.result = "nil"
                  /\ tarpit'.reads = tarpit.reads
                  /\ tarpit'.writes = tarpit.writes
           /\ tarpit.pc = "done" => tarpit' = tarpit ]_vars

C24_Witness ==
    /\ tarpit # NoRequest
    /\ tarpit.pc = "done"
    /\ tarpit.why = "timeout"
    /\ tarpit.result = "nil"
    /\ Len(tarpit.writes) > 2
    /\ tarpit.pos < tarpit.content
    /\ ~tarpit.cancelled

\* Body bytes written to the client so far.
RECURSIVE SumLens(_)
SumLens(s) == IF s = <<>> THEN 0 ELSE s[1][2] + SumLens(Tail(s))

BytesWritten == SumLens(tarpit.writes)

\* The call of scenario 6: 100 bytes per second, 500 ms, 10 kB of content,
\* no fault and no disconnect, returned.
Scenario6 ==
    /\ tarpit # NoRequest
    /\ tarpit.cfg.BytesPerSecond = 100
    /\ tarpit.cfg.Timeout = 500
    /\ tarpit.content = 10240
    /\ tarpit.pc = "done"
    /\ tarpit.why = "timeout"
    /\ ~tarpit.cancelled

\* C25: with bytes_per_second = 100, timeout = 500 ms and 10 kB of content
\* the tarpit has written between 20 and 80 body bytes when it returns.
C25_Between20And80 ==
    Scenario6 => (20 <= BytesWritten /\ BytesWritten <= 80)

\* C26: every tick looks at the request context: once it is cancelled the
\* next tick returns nil without reading the content or writing to the
\* response, so from the cancellation on the loop writes no body byte.
C26_CancelSeenAtNextTick ==
    [][ (tarpit.pc = "loop" /\ tarpit.cancelled)
            => /\ tarpit'.reads = tarpit.reads
               /\ tarpit'.writes = tarpit.writes
               /\ tarpit'.pos = tarpit.pos
               /\ TickStep => (tarpit'.pc = "done" /\ tarpit'.result = "nil"
                                  /\ tarpit'.why = "cancelled") ]_vars

C26_Witness ==
    /\ tarpit # NoRequest
    /\ tarpit.late
    /\ tarpit.pc = "done"
    /\ tarpit.why = "cancelled"
    /\ tarpit.ticks > 2
    /\ Len(tarpit.writes) = tarpit.ticks
    /\ tarpit.pos < tarpit.content

\* The chunks follow one another from the first byte of the content.
InOrder(s) ==
    \A i \in 1..Len(s) :
        s[i][1] = (IF i = 1 THEN 0 ELSE s[i - 1][1] + s[i - 1][2])

\* The reads that brought bytes.
ChunksRead == SelectSeq(tarpit.reads, LAMBDA r : r[2] > 0)

\* C27: when unwrapping the response writer finds no flusher, a tarpit call
\* logs the warning at most once, with its first write, however many chunks
\* follow, and every chunk read is written, in order, unless a write fails.
C27_OneWarningAllChunks ==
    (tarpit # NoRequest /\ getFlushableWriter(tarpit.w) = 0)
        => /\ tarpit.warnings <= 1
           /\ tarpit.warnings = 1 <=> tarpit.writes # <<>>
           /\ tarpit.flushes = 0
           /\ InOrder(tarpit.writes)
           /\ tarpit.why # "write" => tarpit.writes = ChunksRead
           /\ tarpit.why = "write"
                  => tarpit.writes = SubSeq(ChunksRead, 1, Len(ChunksRead) - 1)

C27_Witness ==
    /\ tarpit # NoRequest
    /\ tarpit.w = <<FALSE, FALSE>>
    /\ tarpit.flusher = 0
    /\ Len(tarpit.writes) > 2
    /\ tarpit.warnings = 1
    /\ tarpit.pc = "done"
    /\ tarpit.why = "eof"

\* A tenth of the configured rate, rounded down.
PerTick == tarpit.cfg.BytesPerSecond \div 10

\* C30: the first write is the sniff buffer, of at most 512 bytes and made
\* before any tick; every later write is made at a tick and carries at most
\* floor(bytes_per_second / 10) bytes; so after k ticks at most
\* 512 + k * floor(bytes_per_second / 10) body bytes are written.
C30_PacingBound ==
    tarpit # NoRequest
        => /\ \A i \in 1..Len(tarpit.writes) :
                  tarpit.writes[i][2] <= (IF i = 1 THEN 512 ELSE PerTick)
           /\ tarpit.ticks = 0 => Len(tarpit.writes) <= 1
           /\ Len(tarpit.writes) <= 1 + tarpit.ticks
           /\ BytesWritten <= 512 + tarpit.ticks * PerTick

C30_Witness ==
    /\ tarpit # NoRequest
    /\ tarpit.ticks > 3
    /\ tarpit.cfg.BytesPerSecond = 24
    /\ BytesWritten = 512 + tarpit.ticks * PerTick

\* The UpdateRanges calls between their Lock and their Unlock.
Installing == { u \in Updaters : up[u].pc \in {"locked", "built"} }

\* C28: however lookups and UpdateRanges calls interleave, the table in
\* place is the table built from the whole list of NewIPChecker or of one
\* UpdateRanges call, the answer a lookup read from the table is that of
\* such a whole-list table, and at most one UpdateRanges call is between
\* its Lock and its Unlock, the one holding the lock.
C28_LookupsReadWholeTables ==
    /\ tableGen + 1 \in DOMAIN history
    /\ table = buildTable(history[tableGen + 1])
    /\ \A p \in Lookups :
           lk[p].pc = "store"
               => /\ lk[p].gen + 1 \in DOMAIN history
                  /\ lk[p].contains
                         = Contains(buildTable(history[lk[p].gen + 1]), lk[p].ip)
    /\ Cardinality(Installing) <= 1
    /\ \A u \in Installing : mu = u
    /\ Installing = {} => mu = "free"

C28_Witness ==
    \E p \in Lookups :
        /\ lk[p].pc = "store"
        /\ lk[p].overlap
        /\ lk[p].start = 0
        /\ lk[p].gen = 1
        /\ Len(history[2]) > 1
        /\ lk[p].contains # Contains(buildTable(history[1]), lk[p].ip)

\* ------------------------------------------------------------------
\* buildTable alone: one list, taken entry by entry as the loop does.
\* ------------------------------------------------------------------

\* Entries of a list under construction.
MaxListLen == 3

\* Entries: an IPv4 CIDR with host bits set, an IPv6 host, a CIDR whose
\* length exceeds its family's width, a named group, text with a slash that
\* is no CIDR, and an address without a slash.
BuildEntries ==
    { Cidr(4, 3, 1), Cidr(6, PlainV6, V6Bits), Cidr(4, 1, V4Bits + 1),
      Bundle(1), Junk(1), Bare(4, 1) }

RECURSIVE SeqsUpTo(_, _)
SeqsUpTo(S, n) ==
    IF n = 0 THEN {<<>>}
    ELSE SeqsUpTo(S, n - 1)
         \cup { Append(s, e) : s \in SeqsUpTo(S, n - 1), e \in S }

BuildLists == SeqsUpTo(BuildEntries, MaxListLen)

\* table := &bart.Table{}; the list is history[1], completed counts the
\* entries the loop has taken.
InitBuild ==
    \E cidrRanges \in BuildLists :
        /\ history = <<cidrRanges>>
        /\ table = {}
        /\ completed = 0
        /\ tableGen = 0
        /\ cacheRef = 0
        /\ caches = [g \in Gens |-> EmptyCache]
        /\ mu = "free"
        /\ whitelist = {}
        /\ client = Addr(0, 0)
        /\ lk = <<>>
        /\ up = <<>>
        /\ refresh = {}
        /\ NoDynamic
        /\ NoAdmin
        /\ NoMiddleware
        /\ NoFetcher

\* A loop body that starts the table afresh at an entry that does not
\* parse, for comparison.
insertEntryOrReset(t, cidr) ==
    IF cidr \in DOMAIN IPRanges THEN insertGroup(t, IPRanges[cidr], 1)
    ELSE IF ~ParsePrefix(cidr).ok THEN {}
    ELSE insertCIDR(t, cidr)

\* The body of buildTable's loop: the members of a named group, or the
\* entry itself; what does not parse is logged and left out.
insertEntry(t, cidr) ==
    IF cidr \in DOMAIN IPRanges THEN insertGroup(t, IPRanges[cidr], 1)
    ELSE insertCIDR(t, cidr)

\* One round of the loop.
BuildStep ==
    /\ Len(history) = 1
    /\ completed < Len(history[1])
    /\ table' = insertEntry(table, history[1][completed + 1])
    /\ completed' = completed + 1
    /\ UNCHANGED <<dynVars, admVars, mwVars, ffVars, tblVars, apiVars, tpVars>>
    /\ UNCHANGED <<tableGen, cacheRef, caches, mu, whitelist, client, lk, up,
                   refresh, history>>

NextBuild == BuildStep

SpecBuild == InitBuild /\ [][NextBuild]_vars

\* C29: buildTable always returns a table; after any number of entries the
\* table covers exactly the addresses that the valid CIDRs and the members
\* of the named groups among them cover; an entry that does not parse
\* leaves the table as it was, so the finished table is that of the list
\* without its malformed entries, and a list of malformed entries only
\* gives a table that contains no address.
C29_TableCoversValidEntries ==
    LET list == history[1]
        taken == SubSeq(list, 1, completed)
    IN  /\ \A a \in AllAddrs : Contains(table, a) <=> ListCovers(taken, a)
        /\ table = buildTable(taken)
        /\ table = buildTable(SelectSeq(taken, Usable))
        /\ (\A i \in 1..completed : ~Usable(list[i]))
               => \A a \in AllAddrs : ~Contains(table, a)

C29_Witness ==
    /\ Len(history) = 1
    /\ history[1] = <<Junk(1), Cidr(4, 3, 1), Cidr(4, 1, V4Bits + 1)>>
    /\ completed = 3
    /\ Contains(table, Addr(4, 2))
    /\ Contains(table, Addr(6, MappedAddr(3)))
    /\ ~Contains(table, Addr(4, 1))

\* C31: the configured headers and response code go out at most once, in
\* the step that opened the content and read the sniff buffer without an
\* error other than EOF; a failure to open or to read the sniff buffer is
\* answered 500 without the configured headers and returns nil; a read
\* error other than EOF or a write error after the headers is returned to
\* the caller, the response keeping the configured code.
C31_HeadersOnceErrorsSurfaced ==
    /\ [](tarpit # NoRequest
            => /\ tarpit.headerWrites <= 1
               /\ tarpit.headers = "configured"
                      => /\ tarpit.status = tarpit.cfg.ResponseCode
                         /\ tarpit.reads # <<>>
                         /\ tarpit.why \notin {"open", "sniff"}
               /\ tarpit.why \in {"open", "sniff"}
                      => /\ tarpit.status = 500
                         /\ tarpit.headers = "error"
                         /\ tarpit.result = "nil"
                         /\ tarpit.writes = <<>>
               /\ tarpit.why \in {"read", "write"}
                      => /\ tarpit.result = "err"
                         /\ tarpit.headers = "configured"
                         /\ tarpit.status = tarpit.cfg.ResponseCode
               /\ tarpit.writes # <<>> => tarpit.headers = "configured")
    /\ [][ tarpit.pc # "start"
               => /\ tarpit'.headers = tarpit.headers
                  /\ tarpit'.headerWrites = tarpit.headerWrites
                  /\ tarpit'.status = tarpit.status ]_vars

C31_Witness ==
    /\ tarpit # NoRequest
    /\ tarpit.pc = "done"
    /\ tarpit.why = "read"
    /\ tarpit.result = "err"
    /\ tarpit.headerWrites = 1
    /\ tarpit.status = 200
    /\ Len(tarpit.writes) > 1

\* C32: after Close the watch loop returns; a write made after Close is no
\* event, so the reloads after Close are at most those of events that
\* waited when Close was called; once the loop has returned the list is
\* never replaced and onChange never called, FetchIPRanges returns the list
\* last loaded, and every Close, the second included, returns nil.
C32_CloseStopsTheLoop ==
    /\ [](closes # <<>> => <>(watch.pc = "exited"))
    /\ [](\A i \in DOMAIN closes : closes[i] = "nil")
    /\ [][ /\ closes # <<>> => fEvents' <= fEvents
           /\ (closes # <<>> /\ loads' # loads) => fEvents' < fEvents
           /\ watch.pc = "exited"
                  => /\ watch' = watch
                     /\ fRanges' = fRanges
                     /\ changes' = changes
                     /\ loads' = loads
           /\ fetched' # fetched
                  => fetched'.ranges = FetchIPRanges(fRanges).ranges ]_vars

C32_Witness ==
    /\ Len(closes) = 2
    /\ watch.pc = "exited"
    /\ fRanges # <<>>
    /\ disk.exists
    /\ loadRanges(disk.lines) # fRanges
    /\ changes # <<>>
    /\ changes[Len(changes)] = fRanges
    /\ fetched # NoRequest
    /\ fetched.ranges = fRanges

\* ------------------------------------------- FileFetcher, slices written to
\* The FileFetcher with a caller that writes into the slice FetchIPRanges
\* returned and a callback that writes into the slice it was handed.

\* A slice after its holder has overwritten its first element.
Overwritten(list) == [list EXCEPT ![1] = Junk(1)]

\* The caller of FetchIPRanges overwrites an element of the result; a result
\* that is f.ranges itself takes the list with it.
CallerWrites ==
    /\ Watching
    /\ fetched # NoRequest
    /\ fetched.ranges # <<>>
    /\ fetched.ranges # Overwritten(fetched.ranges)
    /\ fetched' = [fetched EXCEPT !.ranges = Overwritten(@)]
    /\ fRanges' = IF ~fetched.copy /\ fRanges = fetched.ranges
                  THEN Overwritten(fRanges) ELSE fRanges
    /\ UNCHANGED <<disk, fEvents, watch, changes, loads, ffRest, closes>>

\* The callback overwrites an element of the slice it was called with last.
CallbackWrites ==
    /\ watch.pc = "wait"
    /\ changes # <<>>
    /\ changes[Len(changes)] # <<>>
    /\ changes[Len(changes)] # Overwritten(changes[Len(changes)])
    /\ changes' = [changes EXCEPT ![Len(changes)] = Overwritten(@)]
    /\ fRanges' = IF ~rangesCopy(fRanges).own /\ fRanges = changes[Len(changes)]
                  THEN Overwritten(fRanges) ELSE fRanges
    /\ UNCHANGED <<disk, fEvents, watch, fetched, loads, ffRest, closes>>

NextFetcherShare ==
    \/ \E io \in IOs : NewFileFetcher(io)
    \/ \E c \in FileContents : WriteFile(c)
    \/ \E io \in IOs : FetcherLoad(io)
    \/ FetcherNotify
    \/ FetchCall
    \/ CallerWrites
    \/ CallbackWrites

SpecFetcherShare == InitFetcher /\ [][NextFetcherShare]_vars

\* Reloads by the watch loop that worked, among the loads so far.
RECURSIVE GoodReloads(_, _)
GoodReloads(ls, i) ==
    IF i > Len(ls) THEN 0
    ELSE (IF ls[i].err = "nil" THEN 1 ELSE 0) + GoodReloads(ls, i + 1)

\* C33: each reload that works is followed by exactly one onChange call,
\* made before the next reload and after the list was replaced, with a
\* slice of its own that equals the list and what FetchIPRanges returns at
\* that moment; the calls come in the order of the reloads, so the list of
\* the last call is the FileFetcher's list.
C33_OnChangePerReload ==
    /\ [](Len(changes) + (IF watch.pc = "notify" THEN 1 ELSE 0) = GoodReloads(loads, 2))
    /\ [][ /\ Len(changes') > Len(changes)
               => /\ watch.pc = "notify"
                  /\ Len(changes') = Len(changes) + 1
                  /\ changes'[Len(changes')] = fRanges
                  /\ changes'[Len(changes')] = FetchIPRanges(fRanges).ranges
                  /\ fRanges' = fRanges
           /\ (Len(loads) >= 1 /\ loads' # loads)
               => /\ watch.pc = "wait"
                  /\ loads'[Len(loads')].err = "nil"
                         => (watch'.pc = "notify" /\ watch'.copy = fRanges')
                  /\ changes' = changes
           /\ fRanges' # fRanges => loads' # loads ]_vars

C33_Witness ==
    /\ Len(changes) = 2
    /\ GoodReloads(loads, 2) = 2
    /\ watch.pc = "wait"
    /\ changes[1] = Overwritten(changes[1])
    /\ changes[2] = Overwritten(changes[2])
    /\ changes[2] # fRanges
    /\ fRanges = loadRanges(disk.lines)
    /\ Len(fRanges) = 2

\* The lists a load of the file can leave: the valid lines of one whole
\* contents.
WholeLists == { loadRanges(c) : c \in FileContents }

\* This step is a FetchIPRanges call.
FetchStep ==
    /\ fetched' # NoRequest
    /\ IF fetched = NoRequest THEN TRUE ELSE fetched'.n # fetched.n

\* C34: a FetchIPRanges call made while the file is being rewritten and
\* reloaded returns the whole list of the load before it or of the load
\* after it, never part of one: the list is only ever replaced, whole, by a
\* load that worked; and a caller writing into the slice it got changes
\* neither the list nor what later calls return.
C34_FetchReturnsWholeCopy ==
    /\ [](Built => fRanges \in WholeLists)
    /\ [][ /\ FetchStep
               => /\ fetched'.ranges = FetchIPRanges(fRanges).ranges
                  /\ fetched'.ranges \in WholeLists
           /\ fRanges' # fRanges
               => /\ Len(loads') = Len(loads) + 1
                  /\ loads'[Len(loads')].err = "nil"
                  /\ fRanges' = loadRanges(disk.lines)
           /\ (fetched' # fetched /\ ~FetchStep) => fRanges' = fRanges ]_vars

C34_Witness ==
    /\ fetched # NoRequest
    /\ Len(fetched.ranges) = 2
    /\ Len(fRanges) = 2
    /\ fetched.ranges[1] = Junk(1)
    /\ fetched.ranges[2] = fRanges[2]
    /\ fRanges[1] # Junk(1)
    /\ fRanges = loadRanges(disk.lines)
    /\ Len(loads) > 1
    /\ fEvents > 0

\* ------------------------------------------------------- loadRanges alone
\* One load of a file of any lines, as NewFileFetcher makes it.

\* Lines of a file under construction.
MaxFileLen == 3

\* Lines: a comment, a blank line, a CIDR, an address, a CIDR whose length
\* exceeds the family's width (192.168.1.0/33), text that is neither, an
\* address and a comment with white space around them, and a line longer
\* than the scanner's buffer.
LoadLines ==
    { Comment(1), Blank, FileLine, Bare(4, 1), Cidr(4, 1, V4Bits + 1), Junk(1),
      Padded(Bare(6, PlainV6)), Padded(Comment(1)), Long(1) }

LoadFiles == SeqsUpTo(LoadLines, MaxFileLen)

InitLoad ==
    /\ disk \in { [exists |-> TRUE, lines |-> c] : c \in LoadFiles }
    /\ fRanges = <<>>
    /\ fEvents = 0
    /\ watch = [pc |-> "off", copy |-> <<>>]
    /\ fetched = NoRequest
    /\ changes = <<>>
    /\ loads = <<>>
    /\ closes = <<>>
    /\ found = <<>>
    /\ NoApi
    /\ ips = {}
    /\ persistToFile = FALSE
    /\ calls = <<>>
    /\ seed = {}
    /\ saves = "none"
    /\ dmu = Unlocked
    /\ gos = <<>>
    /\ blocklistFile = FALSE
    /\ hs = <<>>
    /\ installed = <<>>
    /\ acked = {}
    /\ gone = {}
    /\ answer = "none"
    /\ NoChecker
    /\ NoMiddleware

NextLoad == \E io \in IOs : NewFileFetcher(io)

SpecLoad == InitLoad /\ [][NextLoad]_vars

\* The line, trimmed, is text that is an address or a CIDR.
Loadable(l) ==
    LET t == IF l.kind = "padded" THEN l.inner ELSE l
    IN  /\ t.kind \in {"cidr", "bare"}
        /\ t.fam \in {4, 6}
        /\ t.addr < Pow2(Width(t.fam))
        /\ t.kind = "cidr" => t.bits <= Width(t.fam)

\* The trimmed lines of the file that are loadable, in file order.
RECURSIVE LoadableLines(_, _)
LoadableLines(lines, i) ==
    IF i > Len(lines) THEN <<>>
    ELSE (IF Loadable(lines[i])
          THEN <<IF lines[i].kind = "padded" THEN lines[i].inner ELSE lines[i]>>
          ELSE <<>>) \o LoadableLines(lines, i + 1)

\* C35: a load of the file that meets no I/O fault succeeds whatever the
\* file holds, and the list is then the trimmed lines, in file order, that
\* are not empty, are no comments and are an address or a CIDR; any other
\* line is left out and the lines after it are still loaded.
C35_LoadNeverFailsOnContent ==
    (Len(loads) = 1 /\ loads[1].io = "ok")
        => /\ loads[1].err = "nil"
           /\ fRanges = LoadableLines(disk.lines, 1)

\* ---------------------------------------------------------------------
\* dynamicBlocklist under concurrent callers: goroutines calling Add, and
\* goroutines calling List or Contains, all on one blocklist.

\* Goroutines calling Add, and goroutines calling List and Contains.
Adders == 2

Readers == 2

AdderIds == 1..Adders

ReaderIds == (Adders + 1)..(Adders + Readers)

\* d.mu.RLock() returns: no goroutine holds the write lock. The variant that
\* never waits is kept for comparison.
CanRLockAlways(m) == TRUE

CanRLock(m) == m.writer = 0

\* d.mu.Lock() returns: no goroutine holds the lock in either mode.
CanLock(m) == m.writer = 0 /\ m.readers = {}

\* dynamicBlocklist.Contains: d.ips[ip]
dynContains(m, ip) == ip \in m

NewAdder == [kind |-> "add", pc |-> "start", args |-> <<>>, i |-> 0, new |-> {}, err |-> FALSE]

NewReader == [kind |-> "read", pc |-> "start", seen |-> {}, list |-> <<>>,
              ip |-> Blank, has |-> FALSE, listed |-> FALSE]

\* newDynamicBlocklist, without file persistence, and the goroutines about
\* to call it
InitConcurrent ==
    /\ ips = {}
    /\ persistToFile = FALSE
    /\ disk = NoDisk
    /\ calls = NoCalls
    /\ seed = {}
    /\ saves = "none"
    /\ dmu = Unlocked
    /\ gos = [g \in 1..(Adders + Readers) |-> IF g \in AdderIds THEN NewAdder ELSE NewReader]
    /\ NoChecker
    /\ NoAdmin
    /\ NoMiddleware
    /\ NoFetcher

dynRest == <<chkVars, admVars, mwVars, ffVars, tblVars, apiVars, tpVars>>

\* Add: d.mu.Lock()
AddLock(g, list) ==
    /\ gos[g].pc = "start"
    /\ CanLock(dmu)
    /\ dmu' = [dmu EXCEPT !.writer = g]
    /\ gos' = [gos EXCEPT ![g].pc = "loop", ![g].args = list, ![g].i = 1,
                          ![g].new = Elems(list) \ ips]
    /\ UNCHANGED <<ips, persistToFile, disk, calls, seed, saves>>
    /\ UNCHANGED dynRest

\* Add: one pass of the loop, d.ips[ip] = true
AddPut(g) ==
    /\ gos[g].pc = "loop"
    /\ gos[g].i <= Len(gos[g].args)
    /\ ips' = AddIps(ips, <<gos[g].args[gos[g].i]>>)
    /\ gos' = [gos EXCEPT ![g].i = @ + 1]
    /\ UNCHANGED <<persistToFile, disk, calls, seed, saves, dmu>>
    /\ UNCHANGED dynRest

\* Add: saveToFile, the return and the deferred d.mu.Unlock()
AddReturn(g, io) ==
    LET r == saveToFile(disk, ips, persistToFile, io)
    IN  /\ gos[g].pc = "loop"
        /\ gos[g].i > Len(gos[g].args)
        /\ disk' = r.disk
        /\ saves' = SavesAfter(r.err, persistToFile)
        /\ dmu' = [dmu EXCEPT !.writer = 0]
        /\ gos' = [gos EXCEPT ![g].pc = "done", ![g].err = r.err]
        /\ UNCHANGED <<ips, persistToFile, calls, seed>>
        /\ UNCHANGED dynRest

\* List: d.mu.RLock()
ListRLock(g) ==
    /\ gos[g].pc = "start"
    /\ CanRLock(dmu)
    /\ dmu' = [dmu EXCEPT !.readers = @ \cup {g}]
    /\ gos' = [gos EXCEPT ![g].pc = "range"]
    /\ UNCHANGED <<ips, persistToFile, disk, calls, seed, saves>>
    /\ UNCHANGED dynRest

\* List: one pass of the range over the map, at the key the runtime picks;
\* seen is the keys appended so far
ListNext(g) ==
    /\ gos[g].pc = "range"
    /\ \E ip \in ips \ gos[g].seen :
          gos' = [gos EXCEPT ![g].seen = @ \cup {ip}]
    /\ UNCHANGED <<ips, persistToFile, disk, calls, seed, saves, dmu>>
    /\ UNCHANGED dynRest

\* List: the range is over; the return and the deferred d.mu.RUnlock()
ListReturn(g) ==
    /\ gos[g].pc = "range"
    /\ ips \ gos[g].seen = {}
    /\ dmu' = [dmu EXCEPT !.readers = @ \ {g}]
    /\ gos' = [gos EXCEPT ![g].pc = "listed", ![g].list = List(gos[g].seen), ![g].seen = {}]
    /\ UNCHANGED <<ips, persistToFile, disk, calls, seed, saves>>
    /\ UNCHANGED dynRest

\* Contains: RLock, the map read and RUnlock. listed is whether List holds
\* the string at the moment of the read.
ContainsCall(g, ip) ==
    /\ gos[g].pc = "start"
    /\ CanRLock(dmu)
    /\ gos' = [gos EXCEPT ![g].pc = "done", ![g].ip = ip, ![g].has = dynContains(ips, ip),
                          ![g].listed = InList(ip, List(ips))]
    /\ UNCHANGED <<ips, persistToFile, disk, calls, seed, saves, dmu>>
    /\ UNCHANGED dynRest

NextConcurrent ==
    \/ \E g \in AdderIds, list \in AddArgs : AddLock(g, list)
    \/ \E g \in AdderIds : AddPut(g)
    \/ \E g \in AdderIds, io \in SaveOutcomes : AddReturn(g, io)
    \/ \E g \in ReaderIds : ListRLock(g)
    \/ \E g \in ReaderIds : ListNext(g)
    \/ \E g \in ReaderIds : ListReturn(g)
    \/ \E g \in ReaderIds, ip \in DynStrings : ContainsCall(g, ip)

SpecConcurrent == InitConcurrent /\ [][NextConcurrent]_vars

HasList(g) == gos[g].kind = "read" /\ gos[g].pc = "listed"

Locked(g) == gos[g].kind = "add" /\ gos[g].pc # "start"

\* C36: with Add calls running at once with List and Contains calls, the
\* write lock is never held together with a read lock; every list a List
\* call returned holds none or all of the strings an Add newly put in; what
\* a Contains call returned is what a List at that moment holds; and once
\* every Add has returned, every string given to an Add is in the map.
C36_AddAtomicForReaders ==
    /\ dmu.writer # 0 => dmu.readers = {}
    /\ \A r \in ReaderIds, a \in AdderIds :
          (HasList(r) /\ Locked(a))
              => Elems(gos[r].list) \cap gos[a].new \in {{}, gos[a].new}
    /\ \A r \in ReaderIds :
          gos[r].pc = "done" => (gos[r].has <=> gos[r].listed)
    /\ (\A a \in AdderIds : gos[a].pc = "done")
          => \A a \in AdderIds : Elems(gos[a].args) \subseteq ips

\* An Add of two new strings has put one of them in, while one reader
\* waits for the lock and another has its list already.
C36_Witness ==
    \E a \in AdderIds, r \in ReaderIds, q \in ReaderIds :
        /\ gos[a].pc = "loop"
        /\ gos[a].i = 2
        /\ Cardinality(gos[a].new) = 2
        /\ gos[r].pc = "start"
        /\ HasList(q)

\* ---------------------------------------------------------------------
\* Which Defender serves successive admin requests.

\* C37: while the registered Defenders stay the same, an admin request is
\* served by the Defender that served the request before it; so a GET that
\* follows a POST answered 201, with the same Defenders registered, is
\* answered 200 by the Defender that took the POST.
C37_SameDefenderWhileRegistryUnchanged ==
    [][(/\ apiResp # NoRequest
        /\ apiResp' # NoRequest
        /\ defenders' = defenders
        /\ apiResp.registry = defenders
        /\ apiResp'.registry = defenders)
           => /\ apiResp'.chosen = apiResp.chosen
              /\ (apiResp.status = 201 /\ apiResp'.method = "GET" /\ apiResp'.route = "blocklist")
                    => apiResp'.status = 200]_vars

\* ---------------------------------------------------------------------
\* FileResponder: the file is read into memory by the first Respond call,
\* under sync.Once, and served from memory afterwards.

\* Respond calls in one run.
MaxResponds == 3

\* Sizes of the file in bytes.
FileSizes == {0, 5, 300}

\* How loadFile ends: it works, or os.Open, file.Stat or ioutil.ReadAll fails.
LoadOutcomes == {"ok", "open", "stat", "read"}

FileMethods == {"GET", "HEAD"}

\* loadFile: the fields afterwards and the error returned. ReadAll assigns
\* what it has read so far even when it fails; modTime is set last.
loadFile(f, io) ==
    IF io = "open" \/ io = "stat" THEN [f |-> f, err |-> TRUE]
    ELSE IF io = "read"
    THEN [f |-> [f EXCEPT !.content = f.size \div 2], err |-> TRUE]
    ELSE [f |-> [f EXCEPT !.content = f.size, !.modTime = "file", !.loaded = TRUE],
          err |-> FALSE]

\* once.Do: the function has been run, whatever it returned.
onceDone(r) == TRUE

\* http.Error(w, "File not found", 404) and the error returned
NotFound(method) ==
    [method |-> method, status |-> 404, body |-> "File not found", headers |-> FALSE,
     err |-> TRUE]

\* The configured headers and http.ServeContent over f.content: 200 with
\* the bytes held in memory, none of them sent for HEAD.
ServeContent(f, method) ==
    [method |-> method, status |-> 200,
     body |-> IF method = "HEAD" THEN 0 ELSE f.content,
     headers |-> f.Headers, err |-> FALSE]

InitFile ==
    /\ \E size \in FileSizes, h \in BOOLEAN :
          fr = [served |-> TRUE, size |-> size, Headers |-> h, content |-> 0,
                modTime |-> "zero", once |-> FALSE, loaded |-> FALSE, calls |-> <<>>]
    /\ tarpit = NoRequest
    /\ defenders = {}
    /\ phase = "running"
    /\ Responder = TRUE
    /\ apiResp = NoRequest
    /\ fetched = NoRequest
    /\ changes = <<>>
    /\ loads = <<>>
    /\ closes = <<>>
    /\ found = <<>>
    /\ NoChecker
    /\ NoDynamic
    /\ NoAdmin
    /\ NoMiddleware

\* Respond
Respond(method, io) ==
    LET r == IF fr.once THEN [f |-> fr, err |-> FALSE] ELSE loadFile(fr, io)
        done == IF fr.once THEN TRUE ELSE onceDone(r)
        resp == IF r.err THEN NotFound(method) ELSE ServeContent(r.f, method)
    IN  /\ Len(fr.calls) < MaxResponds
        /\ fr' = [r.f EXCEPT !.once = done, !.calls = Append(@, resp)]
        /\ UNCHANGED <<tarpit, chkVars, dynVars, admVars, mwVars, ffVars, tblVars, apiVars>>

NextFile == \E method \in FileMethods, io \in LoadOutcomes : Respond(method, io)

SpecFile == InitFile /\ [][NextFile]_vars

\* C38: while the file has never been loaded successfully, every Respond
\* call made so far, the first and the later ones, answered 404 and
\* returned an error.
C38_NeverLoadedAlways404 ==
    ~fr.loaded => \A i \in 1..Len(fr.calls) : fr.calls[i].status = 404 /\ fr.calls[i].err

====
